---- MODULE Spec2Model ----
(***************************************************************************)
(* Model of the master-merge pipeline of master_merger.py: DatasetLoader,  *)
(* SpatialMatcher and MasterMerger (load_base, merge_dataset,              *)
(* _find_best_match, _name_only_match, _merge_row, post_process, validate, *)
(* export) and main().                                                     *)
(*                                                                         *)
(* Conventions.                                                            *)
(*  - A DataFrame is a sequence of rows; a row is a function from the      *)
(*    column names present to cell values.  Index label k of the code      *)
(*    (RangeIndex, 0-based) is position k+1 here; None is position 0.      *)
(*  - A missing cell is NaN in a text column and NaNf in a numeric column. *)
(*  - Lengths are in thousandths of a kilometre.  All coordinates lie on   *)
(*    one meridian, where the haversine distance is the difference of the  *)
(*    latitudes; a latitude is given as metres of arc north of the equator.*)
(*  - A fuzzy score is in thousandths of a point (85 is 85000).            *)
(***************************************************************************)
EXTENDS Integers, Sequences, FiniteSets, TLC

(***************************************************************************)
(* Python strings                                                          *)
(***************************************************************************)
\* the characters of the files, in the order of their code points
Alphabet == " -.0123456789:<>ABCDEFGHIJKLMNOPQRSTUVWXYZ_abcdefghijklmnopqrstuvwxyz|"

\* ord(c), as far as the order of two characters goes
Ord(c) == CHOOSE i \in 1..Len(Alphabet) : SubSeq(Alphabet, i, i) = c

Char(s, i) == SubSeq(s, i, i)

\* a < b for Python strings
RECURSIVE StrLess(_, _)
StrLess(a, b) ==
    IF Len(a) = 0 THEN Len(b) > 0
    ELSE IF Len(b) = 0 THEN FALSE
    ELSE IF Char(a, 1) = Char(b, 1)
         THEN StrLess(SubSeq(a, 2, Len(a)), SubSeq(b, 2, Len(b)))
         ELSE Ord(Char(a, 1)) < Ord(Char(b, 1))

\* needle in hay
Contains(hay, needle) ==
    \E i \in 1..(Len(hay) - Len(needle) + 1) :
        SubSeq(hay, i, i + Len(needle) - 1) = needle

\* s.strip() == ""
IsBlank(s) == \A i \in 1..Len(s) : Char(s, i) = " "

\* s.strip(ch) for a one-character ch
RECURSIVE Strip(_, _)
Strip(s, ch) ==
    IF Len(s) = 0 THEN s
    ELSE IF Char(s, 1) = ch THEN Strip(SubSeq(s, 2, Len(s)), ch)
    ELSE IF Char(s, Len(s)) = ch THEN Strip(SubSeq(s, 1, Len(s) - 1), ch)
    ELSE s

\* s.split(sep): the components between separators, empty ones kept
RECURSIVE SplitOn(_, _, _, _)
SplitOn(s, sep, i, cur) ==
    IF i > Len(s) THEN <<cur>>
    ELSE IF Char(s, i) = sep THEN <<cur>> \o SplitOn(s, sep, i + 1, "")
    ELSE SplitOn(s, sep, i + 1, cur \o Char(s, i))

Split(s, sep) == SplitOn(s, sep, 1, "")

\* s.split(): split on whitespace, empty components dropped
SplitWords(s) == SelectSeq(Split(s, " "), LAMBDA w : w # "")

\* sep.join(seq)
RECURSIVE Join(_, _)
Join(seq, sep) ==
    IF Len(seq) = 0 THEN ""
    ELSE IF Len(seq) = 1 THEN seq[1]
    ELSE seq[1] \o sep \o Join(Tail(seq), sep)

\* sorted(seq) for a sequence of strings (duplicates kept)
RECURSIVE Sorted(_)
Sorted(seq) ==
    IF Len(seq) = 0 THEN <<>>
    ELSE LET i == CHOOSE k \in 1..Len(seq) :
                      \A j \in 1..Len(seq) : ~StrLess(seq[j], seq[k])
             rest == [j \in 1..(Len(seq) - 1) |-> IF j < i THEN seq[j] ELSE seq[j + 1]]
         IN  <<seq[i]>> \o Sorted(rest)

\* sorted(a set of strings)
RECURSIVE SortedSet(_)
SortedSet(S) ==
    IF S = {} THEN <<>>
    ELSE LET m == CHOOSE x \in S : \A y \in S : ~StrLess(y, x)
         IN  <<m>> \o SortedSet(S \ {m})

ToSet(seq) == {seq[i] : i \in 1..Len(seq)}

Abs(n) == IF n < 0 THEN -n ELSE n

(***************************************************************************)
(* rapidfuzz.fuzz.token_sort_ratio                                         *)
(***************************************************************************)
\* one row of the longest-common-subsequence table: prev is the row of the
\* characters of a before ch, over the prefixes of b
RECURSIVE LcsRow(_, _, _, _, _)
LcsRow(prev, ch, b, j, acc) ==
    IF j > Len(b) THEN acc
    ELSE LET v == IF Char(b, j) = ch THEN prev[j] + 1
                  ELSE IF prev[j + 1] >= acc[j] THEN prev[j + 1] ELSE acc[j]
             next == Append(acc, v)
         IN  IF Len(next) = j + 1 THEN LcsRow(prev, ch, b, j + 1, next) ELSE next

RECURSIVE LcsRows(_, _, _, _)
LcsRows(a, b, i, prev) ==
    IF i > Len(a) THEN prev[Len(b) + 1]
    ELSE LET row == LcsRow(prev, Char(a, i), b, 1, <<0>>)
         IN  IF Len(row) = Len(b) + 1 THEN LcsRows(a, b, i + 1, row) ELSE 0

\* length of the longest common subsequence of a and b
Lcs(a, b) == LcsRows(a, b, 1, [j \in 1..(Len(b) + 1) |-> 0])

\* fuzz.token_sort_ratio: the normalized Indel similarity of the token-sorted
\* strings, in thousandths of a point (0..100000)
token_sort_ratio(a, b) ==
    LET sa == Join(Sorted(SplitWords(a)), " ")
        sb == Join(Sorted(SplitWords(b)), " ")
    IN  IF Len(sa) + Len(sb) = 0 THEN 100000
        ELSE (200000 * Lcs(sa, sb)) \div (Len(sa) + Len(sb))


(***************************************************************************)
(* Constants of master_merger.py                                           *)
(***************************************************************************)
NaN == "<NaN>"          \* a missing text cell (float nan in an object column)
NaNf == -1              \* a missing numeric cell
True == "True"
False == "False"

SEARCH_RADIUS_KM == 500
TIGHT_RADIUS_KM == 100
WIDE_RADIUS_KM == 1000

NAME_SCORE_HIGH == 85000
NAME_SCORE_MEDIUM == 70000
NAME_SCORE_GENERIC == 95000
NAME_SCORE_NO_GEO == 90000

GENERIC_NAMES == {
    "HOSPITAL", "PHARMACY", "CLINIC", "DISPENSARY",
    "PRIMARY HEALTH CENTRE", "PRIMARY HEALTH CENTER",
    "COMMUNITY HEALTH CENTRE", "COMMUNITY HEALTH CENTER",
    "SUB HEALTH CENTER", "SUB HEALTH CENTRE", "SUB CENTRE",
    "HEALTH AND WELLNESS CENTER", "HEALTH AND WELLNESS CENTRE",
    "DENTAL CLINIC", "MEDICAL STORE", "HEALTH CENTER",
    "HEALTH CENTRE", "NURSING HOME" }

SPECIALTY_EMP_COLS == <<
    "M1_emp", "M2_emp", "M3_emp", "M4_emp", "M5_emp",
    "M6_emp", "M7_emp", "M8_emp", "M10_emp",
    "S1_emp", "S2_emp", "S3_emp", "S4_emp", "S5_emp",
    "S6_emp", "S7_emp", "S8_emp", "S9_emp", "S10_emp",
    "S11_emp", "S12_emp", "S13_emp", "S14_emp", "S15_emp", "S16_emp" >>

SPECIALTY_UPG_COLS == <<
    "M1_upg", "M2_upg", "M3_upg", "M4_upg", "M5_upg",
    "M6_upg", "M7_upg", "M8_upg", "M10_upg",
    "S1_upg", "S2_upg", "S3_upg", "S4_upg", "S5_upg",
    "S6_upg", "S7_upg", "S10_upg", "S11_upg", "S12_upg",
    "S13_upg", "S14_upg", "S15_upg", "S16_upg" >>

SOURCE_FLAGS == <<
    "in_nha", "in_phc", "in_pmgsy", "in_pmjay",
    "in_nin", "in_cdac_bb", "in_chc", "in_cghs", "in_nhp" >>

\* f"in_{source_name.lower()}"
FlagOf == [NHA |-> "in_nha", PHC |-> "in_phc", PMGSY |-> "in_pmgsy", PMJAY |-> "in_pmjay",
           NIN |-> "in_nin", CDAC_BB |-> "in_cdac_bb", CHC |-> "in_chc", CGHS |-> "in_cghs",
           NHP |-> "in_nhp"]

\* main(): the secondary datasets, in merge order
merge_order == <<"PHC", "PMGSY", "PMJAY", "NIN", "CDAC_BB", "CHC", "CGHS", "NHP">>

\* {original_col: unified_col} per dataset
COLUMN_MAPS == [
    NHA |-> [orig \in {"Facility ID", "hospital_name", "Address", "Latitude", "Longitude",
                       "State_name", "District_name", "new_state_name", "state_code",
                       "new_district_name", "district_code", "Facility Type", "Ownership",
                       "ABDM Enabled", "24/7", "merged_specialties"} |->
               CASE orig = "Facility ID" -> "source_id"
                 [] orig = "hospital_name" -> "facility_name"
                 [] orig = "Address" -> "address"
                 [] orig = "Latitude" -> "latitude"
                 [] orig = "Longitude" -> "longitude"
                 [] orig = "State_name" -> "state"
                 [] orig = "District_name" -> "district"
                 [] orig = "new_state_name" -> "_nha_std_state"
                 [] orig = "state_code" -> "state_code"
                 [] orig = "new_district_name" -> "_nha_std_district"
                 [] orig = "district_code" -> "district_code"
                 [] orig = "Facility Type" -> "facility_type"
                 [] orig = "Ownership" -> "ownership"
                 [] orig = "ABDM Enabled" -> "abdm_enabled"
                 [] orig = "24/7" -> "is_24x7"
                 [] orig = "merged_specialties" -> "specialties"],
    PHC |-> [orig \in {"STATE_NAME", "DISTRICT_NAME", "FACILITY_ID", "FAC_DESC",
                       "Latitude", "Longitude"} |->
               CASE orig = "STATE_NAME" -> "state"
                 [] orig = "DISTRICT_NAME" -> "district"
                 [] orig = "FACILITY_ID" -> "source_id"
                 [] orig = "FAC_DESC" -> "facility_name"
                 [] orig = "Latitude" -> "latitude"
                 [] orig = "Longitude" -> "longitude"],
    PMGSY |-> [orig \in {"STATE_NAME", "DISTRICT_NAME", "BLOCK_NAME", "MASTER_FACILITY_DESC",
                         "ADDRESS", "SUB_CATEGORY", "LATITUDE", "LONGITUDE", "Pincode",
                         "Formatted Address"} |->
               CASE orig = "STATE_NAME" -> "state"
                 [] orig = "DISTRICT_NAME" -> "district"
                 [] orig = "BLOCK_NAME" -> "_block"
                 [] orig = "MASTER_FACILITY_DESC" -> "facility_name"
                 [] orig = "ADDRESS" -> "address"
                 [] orig = "SUB_CATEGORY" -> "facility_subtype"
                 [] orig = "LATITUDE" -> "latitude"
                 [] orig = "LONGITUDE" -> "longitude"
                 [] orig = "Pincode" -> "pincode"
                 [] orig = "Formatted Address" -> "_formatted_addr"],
    PMJAY |-> [orig \in {"Hospital Name", "Hospital Type", "API Latitude", "API Longitude",
                         "Manual Hospital Address", "Hospital E-Mail", "Hospital Contact",
                         "Specialities Empanelled", "Specialities Upgraded", "Manual District",
                         "Manual state", "gmaps_Latitude", "gmaps_Longitude", "pincode_py",
                         "Formatted Address"} |->
               CASE orig = "Hospital Name" -> "facility_name"
                 [] orig = "Hospital Type" -> "ownership"
                 [] orig = "API Latitude" -> "latitude"
                 [] orig = "API Longitude" -> "longitude"
                 [] orig = "Manual Hospital Address" -> "address"
                 [] orig = "Hospital E-Mail" -> "email"
                 [] orig = "Hospital Contact" -> "phone"
                 [] orig = "Specialities Empanelled" -> "_specialties_emp"
                 [] orig = "Specialities Upgraded" -> "_specialties_upg"
                 [] orig = "Manual District" -> "district"
                 [] orig = "Manual state" -> "state"
                 [] orig = "gmaps_Latitude" -> "_gmaps_lat"
                 [] orig = "gmaps_Longitude" -> "_gmaps_lon"
                 [] orig = "pincode_py" -> "pincode"
                 [] orig = "Formatted Address" -> "_formatted_addr"],
    NIN |-> [orig \in {"Health Facility Name", "Address", "pincode", "landline_number",
                       "latitude", "longitude", "Facility Type", "State_Name",
                       "District_Name", "Taluka_Name", "Block_Name"} |->
               CASE orig = "Health Facility Name" -> "facility_name"
                 [] orig = "Address" -> "address"
                 [] orig = "pincode" -> "pincode"
                 [] orig = "landline_number" -> "phone"
                 [] orig = "latitude" -> "latitude"
                 [] orig = "longitude" -> "longitude"
                 [] orig = "Facility Type" -> "facility_type"
                 [] orig = "State_Name" -> "state"
                 [] orig = "District_Name" -> "district"
                 [] orig = "Taluka_Name" -> "_taluka"
                 [] orig = "Block_Name" -> "_block"],
    CDAC_BB |-> [orig \in {"Name", "State", "District", "Address", "Latitude", "Longitude",
                           "Phone", "Email", "Category", "new_latitude", "new_longitude"} |->
               CASE orig = "Name" -> "facility_name"
                 [] orig = "State" -> "state"
                 [] orig = "District" -> "district"
                 [] orig = "Address" -> "address"
                 [] orig = "Latitude" -> "latitude"
                 [] orig = "Longitude" -> "longitude"
                 [] orig = "Phone" -> "phone"
                 [] orig = "Email" -> "email"
                 [] orig = "Category" -> "ownership"
                 [] orig = "new_latitude" -> "_cdac_corrected_lat"
                 [] orig = "new_longitude" -> "_cdac_corrected_lon"],
    CHC |-> [orig \in {"STATE_NAME", "DISTRICT_NAME", "FACILITY_ID", "FAC_DESC",
                       "Latitude", "Longitude"} |->
               CASE orig = "STATE_NAME" -> "state"
                 [] orig = "DISTRICT_NAME" -> "district"
                 [] orig = "FACILITY_ID" -> "source_id"
                 [] orig = "FAC_DESC" -> "facility_name"
                 [] orig = "Latitude" -> "latitude"
                 [] orig = "Longitude" -> "longitude"],
    CGHS |-> [orig \in {"Hospital_Id", "Hospital_Name", "District", "State", "Hospital_Contact",
                        "Specialities_Selected", "Hospital_Type", "Address", "Latitude",
                        "Longitude", "Postcode_py"} |->
               CASE orig = "Hospital_Id" -> "source_id"
                 [] orig = "Hospital_Name" -> "facility_name"
                 [] orig = "District" -> "district"
                 [] orig = "State" -> "state"
                 [] orig = "Hospital_Contact" -> "phone"
                 [] orig = "Specialities_Selected" -> "specialties"
                 [] orig = "Hospital_Type" -> "ownership"
                 [] orig = "Address" -> "address"
                 [] orig = "Latitude" -> "latitude"
                 [] orig = "Longitude" -> "longitude"
                 [] orig = "Postcode_py" -> "pincode"],
    NHP |-> [orig \in {"Hospital Name", "Latitude", "Longitude", "Standardized Address", "City",
                       "State", "Postcode", "Type", "No. of beds in attached Hospital",
                       "Contact"} |->
               CASE orig = "Hospital Name" -> "facility_name"
                 [] orig = "Latitude" -> "latitude"
                 [] orig = "Longitude" -> "longitude"
                 [] orig = "Standardized Address" -> "address"
                 [] orig = "City" -> "_city"
                 [] orig = "State" -> "state"
                 [] orig = "Postcode" -> "pincode"
                 [] orig = "Type" -> "ownership"
                 [] orig = "No. of beds in attached Hospital" -> "num_beds"
                 [] orig = "Contact" -> "phone"] ]

\* the entries of STATE_NORMALIZATION that the files of the model use
STATE_NORMALIZATION == [k \in {"GOA", "KERALA", "ORISSA", "ODISHA"} |->
    CASE k = "GOA" -> "Goa" [] k = "KERALA" -> "Kerala"
      [] k = "ORISSA" -> "Odisha" [] k = "ODISHA" -> "Odisha"]

\* the entries of FACILITY_TYPE_MAP that the files of the model use
FACILITY_TYPE_MAP == [k \in {"Hospital", "Primary Health Centre", "Primary health centre",
                             "Bedded Hospital"} |->
    CASE k = "Hospital" -> "Hospital"
      [] k = "Primary Health Centre" -> "Primary Health Centre"
      [] k = "Primary health centre" -> "Primary Health Centre"
      [] k = "Bedded Hospital" -> "Hospital"]

\* the entries of OWNERSHIP_MAP that the files of the model use
OWNERSHIP_MAP == [k \in {"Government", "Govt.", "Private"} |->
    CASE k = "Government" -> "Government" [] k = "Govt." -> "Government"
      [] k = "Private" -> "Private"]

\* the columns pandas holds as numbers
NumericColumns ==
    {"latitude", "longitude", "num_beds", "_gmaps_lat", "_gmaps_lon",
     "_cdac_corrected_lat", "_cdac_corrected_lon"}
    \cup ToSet(SPECIALTY_EMP_COLS) \cup ToSet(SPECIALTY_UPG_COLS)

\* the missing value of a column
NaNOf(col) == IF col \in NumericColumns THEN NaNf ELSE NaN

\* pd.isna / pd.notna of the cell of column col
isna(col, v) == v = NaNOf(col)
notna(col, v) == v # NaNOf(col)

\* str(v) of a text cell
Str(v) == IF v = NaN THEN "nan" ELSE v

\* row.get(col, "")
Get(row, col) == IF col \in DOMAIN row THEN row[col] ELSE ""


(***************************************************************************)
(* Helper functions                                                        *)
(***************************************************************************)
UpperAlpha == "ABCDEFGHIJKLMNOPQRSTUVWXYZ"
LowerAlpha == "abcdefghijklmnopqrstuvwxyz"
Digits == "0123456789"

IsIn(c, chars) == \E i \in 1..Len(chars) : Char(chars, i) = c
IndexIn(c, chars) == CHOOSE i \in 1..Len(chars) : Char(chars, i) = c
UpperChar(c) == IF IsIn(c, LowerAlpha) THEN Char(UpperAlpha, IndexIn(c, LowerAlpha)) ELSE c
LowerChar(c) == IF IsIn(c, UpperAlpha) THEN Char(LowerAlpha, IndexIn(c, UpperAlpha)) ELSE c

\* s.upper()
RECURSIVE UpperFrom(_, _)
UpperFrom(s, i) ==
    IF i > Len(s) THEN "" ELSE UpperChar(Char(s, i)) \o UpperFrom(s, i + 1)

Upper(s) == UpperFrom(s, 1)

\* s.title(): a letter is upper case after a non-letter and lower case after a letter
RECURSIVE TitleFrom(_, _)
TitleFrom(s, i) ==
    IF i > Len(s) THEN ""
    ELSE (IF i > 1 /\ IsIn(Char(s, i - 1), UpperAlpha \o LowerAlpha)
          THEN LowerChar(Char(s, i)) ELSE UpperChar(Char(s, i))) \o TitleFrom(s, i + 1)

Title(s) == TitleFrom(s, 1)

\* re.sub(r"[^A-Z0-9\s]", " ", s)
RECURSIVE AlnumFrom(_, _)
AlnumFrom(s, i) ==
    IF i > Len(s) THEN ""
    ELSE (IF IsIn(Char(s, i), UpperAlpha \o Digits \o " ") THEN Char(s, i) ELSE " ")
         \o AlnumFrom(s, i + 1)

\* s.strip()
StripWs(s) == Strip(s, " ")

\* s.replace(old, ""), for a non-empty old
RECURSIVE Remove(_, _)
Remove(s, old) ==
    IF Len(s) < Len(old) THEN s
    ELSE IF SubSeq(s, 1, Len(old)) = old THEN Remove(SubSeq(s, Len(old) + 1, Len(s)), old)
    ELSE Char(s, 1) \o Remove(SubSeq(s, 2, Len(s)), old)

\* re.sub(r"\s+", " ", s).strip()
Collapse(s) == Join(SplitWords(s), " ")

\* clean_facility_name, for ASCII names (unidecode leaves them as they are)
clean_facility_name(name) ==
    IF name = NaN THEN ""
    ELSE LET up == StripWs(Upper(name))
             alnum == AlnumFrom(up, 1)
             c0 == Collapse(alnum)
             c1 == Remove(c0, "PVT")
             c2 == Remove(c1, "LTD")
             c3 == Remove(c2, "LIMITED")
             c4 == Remove(c3, "PRIVATE")
             c5 == Remove(c4, "A UNIT OF")
         IN  Collapse(c5)

standardize_state(raw) ==
    IF raw = NaN THEN ""
    ELSE LET key == StripWs(Upper(raw))
         IN  IF key \in DOMAIN STATE_NORMALIZATION THEN STATE_NORMALIZATION[key]
             ELSE Title(StripWs(raw))

standardize_district(raw) == IF raw = NaN THEN "" ELSE Title(StripWs(raw))

standardize_facility_type(raw) ==
    IF raw = NaN THEN ""
    ELSE IF StripWs(raw) \in DOMAIN FACILITY_TYPE_MAP THEN FACILITY_TYPE_MAP[StripWs(raw)]
    ELSE StripWs(raw)

standardize_ownership(raw) ==
    IF raw = NaN THEN ""
    ELSE IF StripWs(raw) \in DOMAIN OWNERSHIP_MAP THEN OWNERSHIP_MAP[StripWs(raw)]
    ELSE StripWs(raw)

is_generic_name(clean_name) == clean_name \in GENERIC_NAMES

\* token_overlap: the Jaccard overlap of the token sets, as the fraction
\* <<numerator, denominator>>
token_overlap(a, b) ==
    LET ta == ToSet(SplitWords(a))
        tb == ToSet(SplitWords(b))
    IN  IF ta = {} \/ tb = {} THEN <<0, 1>>
        ELSE <<Cardinality(ta \cap tb), Cardinality(ta \cup tb)>>

\* q < 0.2 for a fraction q
BelowFifth(q) == 5 * q[1] < q[2]

\* haversine_km between two points of latitudes lat1, lat2 on the meridians
\* lon1, lon2: on one meridian the difference of the latitudes; points on
\* different meridians (whole degrees apart) are further apart than any radius
FarApart == 50000
haversine_km(lat1, lon1, lat2, lon2) ==
    IF lon1 = lon2 THEN Abs(lat1 - lat2) ELSE FarApart + Abs(lat1 - lat2)

(***************************************************************************)
(* The facility names of the files, and the three name functions tabulated *)
(* over them                                                               *)
(***************************************************************************)
FacilityNames ==
    {"City General Hospital", "City General Hospitals", "City Genl. Hospital",
     "City Gen Hospital", "City Hospital", "Citi Generl Hospitals",
     "Pharmacy", "Nursing Home", "Nursing Home A",
     "Health and Wellness Center", "Health and Wellness Centre", "Pvt. Ltd.", NaN}

CleanOf[name \in FacilityNames] == clean_facility_name(name)

CleanNames == {CleanOf[name] : name \in FacilityNames}

ScoreOf[a \in CleanNames, b \in CleanNames] == token_sort_ratio(a, b)

OverlapOf[a \in CleanNames, b \in CleanNames] == token_overlap(a, b)


(***************************************************************************)
(* DataFrames                                                              *)
(***************************************************************************)
\* row with the cell of column col set to v (the column added if missing)
Put(row, col, v) == [c \in DOMAIN row \cup {col} |-> IF c = col THEN v ELSE row[c]]

\* row over the columns cols, NaN where it has no cell
Reindex(row, cols) == [c \in cols |-> IF c \in DOMAIN row THEN row[c] ELSE NaNOf(c)]

\* a faulty variant of Concat: the frame becomes the new rows alone
ConcatDropping(df, new) ==
    [rows |-> [i \in 1..Len(new.rows) |-> Reindex(new.rows[i], df.columns \cup new.columns)],
     columns |-> df.columns \cup new.columns]

\* a faulty variant of Concat: the new rows come first
ConcatPrepending(df, new) ==
    LET cols == df.columns \cup new.columns
    IN  [rows |-> [i \in 1..Len(new.rows) |-> Reindex(new.rows[i], cols)]
                  \o [i \in 1..Len(df.rows) |-> Reindex(df.rows[i], cols)],
         columns |-> cols]

\* pd.concat([df, new], ignore_index=True) of frames [rows, columns]
Concat(df, new) ==
    LET cols == df.columns \cup new.columns
    IN  [rows |-> [i \in 1..Len(df.rows) |-> Reindex(df.rows[i], cols)]
                  \o [i \in 1..Len(new.rows) |-> Reindex(new.rows[i], cols)],
         columns |-> cols]

(***************************************************************************)
(* Dataset Loader                                                          *)
(***************************************************************************)
\* df.rename(columns=rename): a mapped column takes its unified name
Renamed(ds_name, col) ==
    IF col \in DOMAIN COLUMN_MAPS[ds_name] THEN COLUMN_MAPS[ds_name][col] ELSE col

RenameDropping(ds_name, row) ==
    [u \in {COLUMN_MAPS[ds_name][c] : c \in DOMAIN row \cap DOMAIN COLUMN_MAPS[ds_name]} |->
        row[CHOOSE c \in DOMAIN row \cap DOMAIN COLUMN_MAPS[ds_name] :
                COLUMN_MAPS[ds_name][c] = u]]

\* df.rename(columns=rename), on one row: the columns col_map does not name
\* keep their name
Rename(ds_name, row) ==
    [u \in {Renamed(ds_name, c) : c \in DOMAIN row} |->
        row[CHOOSE c \in DOMAIN row : Renamed(ds_name, c) = u]]

\* the missing cell of col takes the cell of from, where the frame has column from
FillNa(row, col, from) ==
    IF from \in DOMAIN row /\ isna(col, row[col]) /\ notna(col, row[from])
    THEN Put(row, col, row[from]) ELSE row

\* row[col] = row[from].fillna(row[col]) where the frame has column from
Prefer(row, col, from) ==
    IF from \in DOMAIN row /\ row[from] # NaNf THEN Put(row, col, row[from]) ELSE row

\* the np.where of the NHA fix: the standardized cell where the cell is
\* missing or ""
NhaFallback(row, col, from) ==
    IF from \in DOMAIN row /\ (row[col] = NaN \/ row[col] = "")
    THEN Put(row, col, row[from]) ELSE row

\* the combined specialties of PMJAY
PmjaySpecialties(row) ==
    LET parts == SelectSeq(<<"_specialties_emp", "_specialties_upg">>,
                           LAMBDA c : c \in DOMAIN row)
        filled == [k \in 1..Len(parts) |->
                      IF row[parts[k]] = NaN THEN "" ELSE row[parts[k]]]
    IN  IF Len(parts) > 0
        THEN Put(row, "specialties", Strip(Join(filled, "|"), "|")) ELSE row

\* a faulty variant of _apply_fixes: every dataset sets the flag of NHA
_apply_fixes_one_flag(row, ds_name) == Put(row, "in_nha", True)

\* DatasetLoader._apply_fixes, on one row
_apply_fixes(row, ds_name) ==
    CASE ds_name = "NHA" ->
           Put(NhaFallback(NhaFallback(row, "state", "_nha_std_state"),
                           "district", "_nha_std_district"), "in_nha", True)
      [] ds_name = "CDAC_BB" ->
           Put(Put(Prefer(Prefer(row, "latitude", "_cdac_corrected_lat"),
                          "longitude", "_cdac_corrected_lon"),
                   "facility_type", "Blood Bank"), "in_cdac_bb", True)
      [] ds_name = "PMJAY" ->
           Put(PmjaySpecialties(FillNa(FillNa(row, "latitude", "_gmaps_lat"),
                                       "longitude", "_gmaps_lon")), "in_pmjay", True)
      [] ds_name = "NHP" -> Put(Put(row, "facility_type", "Medical College"), "in_nhp", True)
      [] ds_name = "CHC" ->
           Put(Put(row, "facility_type", "Community Health Centre"), "in_chc", True)
      [] ds_name = "PHC" ->
           Put(Put(row, "facility_type", "Primary Health Centre"), "in_phc", True)
      [] ds_name = "PMGSY" -> Put(row, "in_pmgsy", True)
      [] ds_name = "CGHS" -> Put(row, "in_cghs", True)
      [] ds_name = "NIN" -> Put(row, "in_nin", True)

\* the "Standardize" block of load, on one row
Standardize(row) ==
    [c \in DOMAIN row \cup {"facility_name_clean"} |->
        CASE c = "facility_name_clean" -> CleanOf[row["facility_name"]]
          [] c = "state" -> standardize_state(row[c])
          [] c = "district" -> standardize_district(row[c])
          [] c = "facility_type" -> standardize_facility_type(row[c])
          [] c = "ownership" -> standardize_ownership(row[c])
          [] OTHER -> row[c]]

\* a faulty variant of LoadRow: the source tag is left missing
LoadRowUntagged(ds_name, raw) ==
    Standardize(Put(_apply_fixes(Rename(ds_name, raw), ds_name), "source_datasets", NaN))

\* DatasetLoader.load, on one row of the file read by pd.read_csv
LoadRow(ds_name, raw) ==
    Standardize(Put(_apply_fixes(Rename(ds_name, raw), ds_name),
                    "source_datasets", ds_name))

\* DatasetLoader.load: the frame [rows, columns] of a file [rows, columns]
load(ds_name, file) ==
    [rows |-> [i \in 1..Len(file.rows) |-> LoadRow(ds_name, file.rows[i])],
     columns |-> DOMAIN LoadRow(ds_name, [c \in file.columns |-> NaNOf(Renamed(ds_name, c))])]


(***************************************************************************)
(* Spatial Matcher                                                         *)
(***************************************************************************)
\* SpatialMatcher.build: per state, the index labels and coordinates of the
\* rows that have both coordinates; no tree for the state ""
build(base_df) ==
    LET valid == {i \in 1..Len(base_df) :
                     base_df[i]["latitude"] # NaNf /\ base_df[i]["longitude"] # NaNf}
        states == {base_df[i]["state"] : i \in valid} \ {""}
    IN  [s \in states |->
            {[idx |-> i, latitude |-> base_df[i]["latitude"],
              longitude |-> base_df[i]["longitude"]] : i \in {j \in valid : base_df[j]["state"] = s}}]

\* a faulty variant of query: every point of the state's tree is returned
query_any_distance(tr, lat, lon, state, radius) ==
    IF state \notin DOMAIN tr THEN {} ELSE {e.idx : e \in tr[state]}

\* a faulty variant of query: the trees of all states are searched
query_any_state(tr, lat, lon, state, radius) ==
    {e.idx : e \in {p \in UNION {tr[s] : s \in DOMAIN tr} :
                haversine_km(lat, lon, p.latitude, p.longitude) <= radius}}

\* SpatialMatcher.batch_query for one point: the index labels within the radius
\* (the order in which BallTree.query_radius returns them is not specified)
query(tr, lat, lon, state, radius) ==
    IF state \notin DOMAIN tr THEN {}
    ELSE {e.idx : e \in {p \in tr[state] :
                     haversine_km(lat, lon, p.latitude, p.longitude) <= radius}}

\* the orders in which a set of index labels can be returned
Orders(S) == {q \in [1..Cardinality(S) -> S] : \A a, b \in DOMAIN q : a # b => q[a] # q[b]}

(***************************************************************************)
(* Master Merger: match resolution                                         *)
(***************************************************************************)
\* a faulty variant of IsMatch: a generic name is treated like any other
IsMatchLoose(inc_name, inc_ftype, base_name, base_ftype, score, dist) ==
    IF score >= NAME_SCORE_HIGH THEN TRUE
    ELSE IF score >= NAME_SCORE_MEDIUM
         THEN inc_ftype # "" /\ base_ftype # "" /\ inc_ftype = base_ftype
    ELSE FALSE

\* a faulty variant of IsMatch: a borderline score is accepted whatever the
\* facility types
IsMatchUntyped(inc_name, inc_ftype, base_name, base_ftype, score, dist) ==
    IF is_generic_name(inc_name) \/ is_generic_name(base_name)
    THEN dist <= TIGHT_RADIUS_KM /\ score >= NAME_SCORE_GENERIC
    ELSE score >= NAME_SCORE_MEDIUM

\* the decision logic of _find_best_match for one candidate that passed the
\* name and token-overlap filters
IsMatch(inc_name, inc_ftype, base_name, base_ftype, score, dist) ==
    IF is_generic_name(inc_name) \/ is_generic_name(base_name)
    THEN dist <= TIGHT_RADIUS_KM /\ score >= NAME_SCORE_GENERIC
    ELSE IF score >= NAME_SCORE_HIGH THEN TRUE
    ELSE IF score >= NAME_SCORE_MEDIUM
         THEN inc_ftype # "" /\ base_ftype # "" /\ inc_ftype = base_ftype
    ELSE FALSE

\* a faulty variant of Better: equal scores are not compared by distance
BetterScoreOnly(score, dist, best) == score > best.score

\* whether a qualifying candidate replaces the best one so far
Better(score, dist, best) ==
    score > best.score \/ (score = best.score /\ dist < best.dist)

\* the loop of _find_best_match over candidate_base_idxs[k..]
RECURSIVE FindBestFrom(_, _, _, _, _, _)
FindBestFrom(m, mcols, row, cands, k, best) ==
    IF k > Len(cands) THEN best
    ELSE LET base_idx == cands[k]
             inc_name == Get(row, "facility_name_clean")
             inc_ftype == Get(row, "facility_type")
             base_name == m[base_idx]["facility_name_clean"]
             score == ScoreOf[inc_name, base_name]
             dist == haversine_km(row["latitude"], row["longitude"],
                                  m[base_idx]["latitude"], m[base_idx]["longitude"])
             base_ftype == IF "facility_type" \in mcols
                           THEN m[base_idx]["facility_type"] ELSE ""
             take == /\ base_name # ""
                     /\ ~BelowFifth(OverlapOf[inc_name, base_name])
                     /\ IsMatch(inc_name, inc_ftype, base_name, base_ftype, score, dist)
                     /\ Better(score, dist, best)
         IN  FindBestFrom(m, mcols, row, cands, k + 1,
                          IF take THEN [idx |-> base_idx, score |-> score, dist |-> dist]
                          ELSE best)

\* float("inf")
Infinity == 1000000000

\* MasterMerger._find_best_match: [idx, score, dist] of the best candidate,
\* idx 0 for None
_find_best_match(m, mcols, row, candidate_base_idxs) ==
    IF Get(row, "facility_name_clean") = "" THEN [idx |-> 0, score |-> 0, dist |-> Infinity]
    ELSE FindBestFrom(m, mcols, row, candidate_base_idxs, 1,
                      [idx |-> 0, score |-> 0, dist |-> Infinity])

\* the loop of _name_only_match over the candidates from position k on
RECURSIVE NameOnlyFrom(_, _, _, _, _)
NameOnlyFrom(m, row, cands, k, best) ==
    IF k > Len(cands) THEN best
    ELSE LET base_idx == cands[k]
             base_name == m[base_idx]["facility_name_clean"]
             score == ScoreOf[Get(row, "facility_name_clean"), base_name]
             take == /\ base_name # ""
                     /\ score >= NAME_SCORE_NO_GEO
                     /\ score > best.score
         IN  NameOnlyFrom(m, row, cands, k + 1,
                          IF take THEN [idx |-> base_idx, score |-> score] ELSE best)

\* a faulty variant of NameOnlyCandidates: the district is not compared
NameOnlyCandidatesAnyDistrict(m, row, state) ==
    SelectSeq([i \in 1..Len(m) |-> i], LAMBDA i : m[i]["state"] = state)

\* the rows of master selected by the state and district mask, in index order
NameOnlyCandidates(m, row, state) ==
    SelectSeq([i \in 1..Len(m) |-> i],
              LAMBDA i : /\ m[i]["state"] = state
                         /\ (Get(row, "district") # "" =>
                                m[i]["district"] = Get(row, "district")))

\* a faulty variant of _name_only_match: empty names are compared like others
_name_only_match_any_name(m, row, state) ==
    LET cands == NameOnlyCandidates(m, row, state)
        ok == {k \in 1..Len(cands) :
                  ScoreOf[Get(row, "facility_name_clean"),
                          m[cands[k]]["facility_name_clean"]] >= NAME_SCORE_NO_GEO}
    IN  IF ok = {} THEN 0 ELSE cands[CHOOSE k \in ok : TRUE]

\* MasterMerger._name_only_match: the index label, 0 for None
_name_only_match(m, row, state) ==
    LET inc_name == Get(row, "facility_name_clean")
    IN  IF inc_name = "" \/ is_generic_name(inc_name) THEN 0
        ELSE NameOnlyFrom(m, row, NameOnlyCandidates(m, row, state), 1,
                          [idx |-> 0, score |-> 0]).idx


(***************************************************************************)
(* Master Merger: _merge_row                                               *)
(***************************************************************************)
fill_cols == <<"address", "pincode", "phone", "email",
               "num_beds", "abdm_enabled", "is_24x7",
               "facility_type", "facility_subtype", "ownership">>

\* pd.isna(v) or str(v).strip() == "" for the cell v of column col
IsEmptyCell(col, v) ==
    isna(col, v) \/ (col \notin NumericColumns /\ IsBlank(v))

\* a faulty variant of MergeSpecialties: the incoming components replace the
\* existing ones
MergeSpecialtiesReplacing(existing, inc) ==
    Join(SortedSet(ToSet(Split(inc, "|")) \ {""}), "|")

\* a faulty variant of MergeSpecialties: the incoming value is appended
MergeSpecialtiesAppending(existing, inc) ==
    LET existing_spec == IF existing # NaN THEN existing ELSE ""
    IN  Strip(existing_spec \o "|" \o inc, "|")

\* the union of the pipe-separated components of both sides, sorted and joined
MergeSpecialties(existing, inc) ==
    LET existing_spec == IF existing # NaN THEN existing ELSE ""
        merged == (ToSet(Split(existing_spec, "|")) \cup ToSet(Split(inc, "|"))) \ {""}
    IN  Join(SortedSet(merged), "|")

\* a faulty variant of AppendSource: the tag is appended in every case
AppendSourceAlways(existing, source_name) == Str(existing) \o "|" \o source_name

\* a faulty variant of AppendSource: the tag replaces the earlier ones
AppendSourceReplacing(existing, source_name) == source_name

\* "Append source": the new value of source_datasets
AppendSource(existing, source_name) ==
    IF ~Contains(Str(existing), source_name)
    THEN Str(existing) \o "|" \o source_name ELSE existing

\* "Append source_id": the new value of source_ids
AppendSourceId(existing, inc_id) ==
    LET existing_ids == IF existing # NaN THEN Str(existing) ELSE ""
    IN  IF inc_id # NaN /\ ~IsBlank(inc_id) /\ ~Contains(existing_ids, inc_id)
        THEN Strip(existing_ids \o "|" \o inc_id, "|") ELSE existing

\* a faulty variant of FillCell: the incoming value always wins
FillCellOverwriting(col, existing, inc) == inc

\* "Fill missing fields": the new value of the cell of a fill column that the
\* incoming row has a value for
FillCell(col, existing, inc) == IF IsEmptyCell(col, existing) THEN inc ELSE existing

\* a faulty variant of _merge_row: the tag and the flag are written to every
\* row of the frame
_merge_row_every(df, base_idx, incoming_row, source_name) ==
    [rows |-> [i \in 1..Len(df.rows) |->
                  [c \in df.columns \cup {FlagOf[source_name]} |->
                      IF c = "source_datasets"
                      THEN AppendSource(df.rows[i][c], source_name)
                      ELSE IF c = FlagOf[source_name] THEN True
                      ELSE df.rows[i][c]]],
     columns |-> df.columns \cup {FlagOf[source_name]}]

\* MasterMerger._merge_row on the frame df = [rows, columns].  The loops over
\* fill_cols and over the specialty columns handle one column each, so the
\* cells of the target are given column by column.
_merge_row(df, base_idx, incoming_row, source_name) ==
    LET target == df.rows[base_idx]
        \* the fill columns the incoming row has a value for
        filling == {col \in ToSet(fill_cols) :
                       col \in DOMAIN incoming_row /\ notna(col, incoming_row[col])}
        \* the specialty columns the incoming row has a 1 in
        ones == {col \in ToSet(SPECIALTY_EMP_COLS \o SPECIALTY_UPG_COLS) :
                    col \in DOMAIN incoming_row /\ incoming_row[col] = 1}
        has_spec == "specialties" \in DOMAIN incoming_row
                    /\ incoming_row["specialties"] # NaN
        flag == FlagOf[source_name]
        \* a column the frame lacks is added: the flag as False, the others as NaN
        columns == df.columns \cup filling \cup ones \cup {flag}
        Cell(row, c) == IF c \in DOMAIN row THEN row[c]
                        ELSE IF c = flag THEN False ELSE NaNOf(c)
        Merged(c) ==
            CASE c = "source_datasets" -> AppendSource(target[c], source_name)
              [] c = "source_ids" -> AppendSourceId(target[c], Get(incoming_row, "source_id"))
              [] c \in filling -> FillCell(c, Cell(target, c), incoming_row[c])
              [] c = "specialties" /\ has_spec ->
                     MergeSpecialties(target[c], incoming_row["specialties"])
              [] c = flag -> True
              [] c \in ones -> 1
              [] OTHER -> Cell(target, c)
    IN  [rows |-> [i \in 1..Len(df.rows) |->
                      [c \in columns |-> IF i = base_idx THEN Merged(c)
                                         ELSE Cell(df.rows[i], c)]],
         columns |-> columns]

(***************************************************************************)
(* The pipeline: main() and the steps of MasterMerger                      *)
(***************************************************************************)
VARIABLES
    pc,                 \* the step main() is at
    master,             \* self.master, the frame [rows, columns]
    trees,              \* self.spatial.trees
    stats,              \* self.stats
    sample_matches,     \* self.sample_matches
    passes,             \* the number of merge passes completed
    incoming,           \* merge_dataset: the frame being merged
    queue,              \* merge_dataset: the index labels still to process, in loop order
    unmatched_indices,  \* merge_dataset: unmatched_indices
    matched_count,      \* merge_dataset: matched_count
    issues,             \* what validate returned
    outputs,            \* the files export has written
    last,               \* history: the latest iteration of the loop of this pass:
                        \* its incoming row, master before it, the candidates in the
                        \* order the index returned them, and the match (idx 0: none)
    pass_start          \* history: the rows of master when the current pass began

vars == <<pc, master, trees, stats, sample_matches, passes, incoming, queue,
          unmatched_indices, matched_count, issues, outputs, last, pass_start>>

NoFrame == [rows |-> <<>>, columns |-> {}]
NoCall == [kind |-> "none", ds_name |-> "", df_idx |-> 0, row |-> << >>,
           before |-> NoFrame, cands |-> <<>>, idx |-> 0, score |-> 0, dist |-> 0]

SAMPLE_LIMIT == 200
NHA_BASE_ROWS == 323460

Init ==
    /\ pc = "load_base"
    /\ master = NoFrame
    /\ trees = << >>
    /\ stats = << >>
    /\ sample_matches = << >>
    /\ passes = 0
    /\ incoming = NoFrame
    /\ queue = << >>
    /\ unmatched_indices = << >>
    /\ matched_count = 0
    /\ issues = << >>
    /\ outputs = {}
    /\ last = NoCall
    /\ pass_start = << >>

RECURSIVE LoadedIn(_, _)
LoadedIn(st, D) == IF D = {} THEN 0
                   ELSE LET d == CHOOSE e \in D : TRUE
                        IN  st[d].loaded + LoadedIn(st, D \ {d})

\* the rows loaded so far in the run
Loaded == LoadedIn(stats, DOMAIN stats)

\* a faulty variant of load_fails: the exception is caught and the dataset
\* skipped
load_fails_skipping ==
    /\ pc \in {"load_base", "merge"}
    /\ IF pc = "merge"
       THEN /\ passes' = passes + 1
            /\ pc' = IF passes' = Len(merge_order) THEN "post_process" ELSE "merge"
       ELSE /\ pc' = "failed"
            /\ UNCHANGED passes
    /\ UNCHANGED <<master, trees, stats, sample_matches, incoming, queue,
                   unmatched_indices, matched_count, issues, outputs, last, pass_start>>

\* DatasetLoader.load when pd.read_csv raises (the file is missing or
\* unreadable): load_base, merge_dataset and main() catch nothing, so the
\* exception ends the run
load_fails ==
    /\ pc \in {"load_base", "merge"}
    /\ pc' = "failed"
    /\ UNCHANGED <<master, trees, stats, sample_matches, passes, incoming, queue,
                   unmatched_indices, matched_count, issues, outputs, last, pass_start>>

\* MasterMerger.load_base, for one of the given NHA files
load_base(files) ==
    /\ pc = "load_base"
    /\ \E file \in files :
        LET df == load("NHA", file)
            m == [rows |-> [i \in 1..Len(df.rows) |->
                               Put(df.rows[i], "source_ids", Str(df.rows[i]["source_id"]))],
                  columns |-> df.columns \cup {"source_ids"}]
        IN  /\ master' = m
            /\ stats' = [d \in {"NHA"} |->
                            [loaded |-> Len(m.rows), matched |-> 0, new |-> Len(m.rows)]]
            /\ trees' = build(m.rows)
            /\ pass_start' = m.rows
    /\ pc' = "merge"
    /\ UNCHANGED <<sample_matches, passes, incoming, queue, unmatched_indices,
                   matched_count, issues, outputs, last>>

\* a faulty variant of Group: the rows without state are skipped and not kept
GroupSkippingStateless(rows, state) ==
    LET all == [i \in 1..Len(rows) |-> i]
        has_geo(i) == rows[i]["latitude"] # NaNf /\ rows[i]["longitude"] # NaNf
    IN  IF state = "" THEN << >>
        ELSE SelectSeq(all, LAMBDA i : rows[i]["state"] = state /\ has_geo(i))
             \o SelectSeq(all, LAMBDA i : rows[i]["state"] = state /\ ~has_geo(i))

\* the rows of a state group in the order the loop handles them: with
\* coordinates first, then without; the group of state "" as it is
Group(rows, state) ==
    LET all == [i \in 1..Len(rows) |-> i]
        has_geo(i) == rows[i]["latitude"] # NaNf /\ rows[i]["longitude"] # NaNf
    IN  IF state = "" THEN SelectSeq(all, LAMBDA i : rows[i]["state"] = "")
        ELSE SelectSeq(all, LAMBDA i : rows[i]["state"] = state /\ has_geo(i))
             \o SelectSeq(all, LAMBDA i : rows[i]["state"] = state /\ ~has_geo(i))

RECURSIVE GroupsFrom(_, _, _)
GroupsFrom(rows, states, k) ==
    IF k > Len(states) THEN <<>>
    ELSE Group(rows, states[k]) \o GroupsFrom(rows, states, k + 1)

\* the order in which merge_dataset handles the rows of incoming: state by
\* state in sorted order
LoopOrder(rows) ==
    GroupsFrom(rows, SortedSet({rows[i]["state"] : i \in 1..Len(rows)}), 1)

\* a faulty variant of LogSample: every match is kept
LogSampleUnbounded(sample, entry) == Append(sample, entry)

\* "Log sample matches" of _find_best_match: the new value of sample_matches
LogSample(sample, entry) ==
    IF Len(sample) < SAMPLE_LIMIT THEN Append(sample, entry) ELSE sample

\* merge_dataset up to its loop: load one of the given files of the next dataset
begin_merge(files, max_rows) ==
    /\ pc = "merge"
    /\ LET ds_name == merge_order[passes + 1]
       IN  \E file \in files[ds_name] :
               /\ Loaded + Len(file.rows) <= max_rows
               /\ incoming' = load(ds_name, file)
               /\ queue' = LoopOrder(incoming'.rows)
    /\ unmatched_indices' = << >>
    /\ matched_count' = 0
    /\ pass_start' = master.rows
    /\ last' = NoCall
    /\ pc' = "rows"
    /\ UNCHANGED <<master, trees, stats, sample_matches, passes, issues, outputs>>

\* merge_dataset: one iteration of its loop over the rows of incoming
process_row ==
    /\ pc = "rows"
    /\ queue # << >>
    /\ LET ds_name == merge_order[passes + 1]
           radius == IF ds_name = "NHP" THEN WIDE_RADIUS_KM ELSE SEARCH_RADIUS_KM
           df_idx == Head(queue)
           row == incoming.rows[df_idx]
           state == row["state"]
           has_geo == row["latitude"] # NaNf /\ row["longitude"] # NaNf
           call == [NoCall EXCEPT !.ds_name = ds_name, !.df_idx = df_idx, !.row = row,
                                  !.before = master]
           Unmatched(c) ==
               /\ unmatched_indices' = Append(unmatched_indices, df_idx)
               /\ last' = c
               /\ UNCHANGED <<master, matched_count, sample_matches>>
           Matched(c) ==
               /\ master' = _merge_row(master, c.idx, row, ds_name)
               /\ matched_count' = matched_count + 1
               /\ last' = c
               /\ UNCHANGED unmatched_indices
       IN  IF state = "" THEN Unmatched([call EXCEPT !.kind = "no_state"])
           ELSE IF has_geo
           THEN LET found == query(trees, row["latitude"], row["longitude"], state, radius)
                IN  IF found = {} THEN Unmatched([call EXCEPT !.kind = "no_candidates"])
                    ELSE \E candidate_base_idxs \in Orders(found) :
                        LET best == _find_best_match(master.rows, master.columns, row,
                                                     candidate_base_idxs)
                            c == [call EXCEPT !.kind = "geo", !.cands = candidate_base_idxs,
                                              !.idx = best.idx, !.score = best.score,
                                              !.dist = best.dist]
                        IN  IF best.idx # 0
                            THEN /\ Matched(c)
                                 /\ sample_matches' =
                                        LogSample(sample_matches,
                                                  [score |-> best.score,
                                                   distance_km |-> best.dist,
                                                   state |-> state, source |-> ds_name,
                                                   base_idx |-> best.idx])
                            ELSE Unmatched(c)
           ELSE LET match_idx == _name_only_match(master.rows, row, state)
                    c == [call EXCEPT !.kind = "no_geo", !.idx = match_idx]
                IN  IF match_idx # 0
                    THEN Matched(c) /\ UNCHANGED sample_matches
                    ELSE Unmatched(c)
    /\ queue' = Tail(queue)
    /\ UNCHANGED <<pc, trees, stats, passes, incoming, issues, outputs, pass_start>>

\* a faulty variant of finish_merge: the spatial index is not rebuilt
finish_merge_stale ==
    /\ pc = "rows"
    /\ queue = << >>
    /\ LET ds_name == merge_order[passes + 1]
           new_rows == [rows |-> [k \in 1..Len(unmatched_indices) |->
                                     incoming.rows[unmatched_indices[k]]],
                        columns |-> incoming.columns]
           n_new == Len(new_rows.rows)
       IN  /\ master' = IF n_new > 0 THEN Concat(master, new_rows) ELSE master
           /\ stats' = [d \in DOMAIN stats \cup {ds_name} |->
                           IF d = ds_name
                           THEN [loaded |-> Len(incoming.rows), matched |-> matched_count,
                                 new |-> n_new]
                           ELSE stats[d]]
    /\ passes' = passes + 1
    /\ pc' = IF passes' = Len(merge_order) THEN "post_process" ELSE "merge"
    /\ UNCHANGED <<trees, sample_matches, incoming, queue, unmatched_indices,
                   matched_count, issues, outputs, last, pass_start>>

\* merge_dataset after its loop: append the unmatched rows, record the
\* statistics, rebuild the spatial index
finish_merge ==
    /\ pc = "rows"
    /\ queue = << >>
    /\ LET ds_name == merge_order[passes + 1]
           new_rows == [rows |-> [k \in 1..Len(unmatched_indices) |->
                                     incoming.rows[unmatched_indices[k]]],
                        columns |-> incoming.columns]
           n_new == Len(new_rows.rows)
           m == IF n_new > 0 THEN Concat(master, new_rows) ELSE master
       IN  /\ master' = m
           /\ stats' = [d \in DOMAIN stats \cup {ds_name} |->
                           IF d = ds_name
                           THEN [loaded |-> Len(incoming.rows), matched |-> matched_count,
                                 new |-> n_new]
                           ELSE stats[d]]
           /\ trees' = build(m.rows)
    /\ passes' = passes + 1
    /\ pc' = IF passes' = Len(merge_order) THEN "post_process" ELSE "merge"
    /\ UNCHANGED <<sample_matches, incoming, queue, unmatched_indices, matched_count,
                   issues, outputs, last, pass_start>>

\* c.startswith(prefix)
StartsWith(c, prefix) == Len(c) >= Len(prefix) /\ SubSeq(c, 1, Len(prefix)) = prefix

post_process_one_id ==
    /\ pc = "post_process"
    /\ LET kept == {c \in master.columns \cup {"master_id"} \cup ToSet(SOURCE_FLAGS) :
                       ~StartsWith(c, "_") /\ ~StartsWith(c, "Unnamed")}
       IN  master' = [rows |-> [i \in 1..Len(master.rows) |->
                                  [c \in kept |->
                                      IF c = "master_id" THEN "uuid-1"
                                      ELSE IF c \in master.columns THEN master.rows[i][c]
                                      ELSE False]],
                      columns |-> kept]
    /\ pc' = "validate"
    /\ UNCHANGED <<trees, stats, sample_matches, passes, incoming, queue,
                   unmatched_indices, matched_count, issues, outputs, last, pass_start>>

\* MasterMerger.post_process; the identifiers uuid.uuid4() returns are taken
\* to be fresh, one per row
post_process ==
    /\ pc = "post_process"
    /\ LET flags == ToSet(SOURCE_FLAGS)
           columns == master.columns \cup {"master_id"} \cup flags
           kept == {c \in columns : ~StartsWith(c, "_") /\ ~StartsWith(c, "Unnamed")}
           Cell(i, c) ==
               CASE c = "master_id" -> "uuid-" \o ToString(i)
                 \* a missing flag column is added as False; fillna(False).astype(bool)
                 [] c \in flags -> IF c \in master.columns /\ master.rows[i][c] = True
                                   THEN True ELSE False
                 [] OTHER -> master.rows[i][c]
       IN  master' = [rows |-> [i \in 1..Len(master.rows) |-> [c \in kept |-> Cell(i, c)]],
                      columns |-> kept]
    /\ pc' = "validate"
    /\ UNCHANGED <<trees, stats, sample_matches, passes, incoming, queue,
                   unmatched_indices, matched_count, issues, outputs, last, pass_start>>

\* metres of arc of one degree of latitude (EARTH_RADIUS_KM * pi / 180)
DegreeOfArc == 111195

\* "Coordinate range (India bounding box)" of validate: the number of rows
\* with coordinates that lie outside the box
out_of_range(df) ==
    Cardinality({i \in 1..Len(df) :
        /\ df[i]["latitude"] # NaNf /\ df[i]["longitude"] # NaNf
        /\ \/ df[i]["latitude"] < 6 * DegreeOfArc \/ df[i]["latitude"] > 38 * DegreeOfArc
           \/ df[i]["longitude"] < 68 \/ df[i]["longitude"] > 98})

\* a faulty variant of validate: an issue ends the run
validate_aborting ==
    /\ pc = "validate"
    /\ LET df == master.rows
           no_source == Cardinality({i \in 1..Len(df) : df[i]["source_datasets"] = NaN})
       IN  issues' = (IF Len(df) < NHA_BASE_ROWS THEN <<"row_count">> ELSE << >>)
                     \o (IF no_source > 0 THEN <<"no_source">> ELSE << >>)
    /\ pc' = IF issues' = << >> THEN "export" ELSE "failed"
    /\ UNCHANGED <<master, trees, stats, sample_matches, passes, incoming, queue,
                   unmatched_indices, matched_count, outputs, last, pass_start>>

\* MasterMerger.validate: the issues it returns.  The null coordinates, the
\* states, the flag counts and out_of_range(df) are written to the log only:
\* issues is appended to for the row count and for rows without source.
validate ==
    /\ pc = "validate"
    /\ LET df == master.rows
           no_source == Cardinality({i \in 1..Len(df) : df[i]["source_datasets"] = NaN})
       IN  issues' = (IF Len(df) < NHA_BASE_ROWS THEN <<"row_count">> ELSE << >>)
                     \o (IF no_source > 0 THEN <<"no_source">> ELSE << >>)
    /\ pc' = "export"
    /\ UNCHANGED <<master, trees, stats, sample_matches, passes, incoming, queue,
                   unmatched_indices, matched_count, outputs, last, pass_start>>

\* MasterMerger.export
export ==
    /\ pc = "export"
    /\ outputs' = {"healthcare_master_dataset.csv", "merge_report.json"}
                  \cup (IF sample_matches # << >> THEN {"sample_matches.csv"} ELSE {})
    /\ pc' = "done"
    /\ UNCHANGED <<master, trees, stats, sample_matches, passes, incoming, queue,
                   unmatched_indices, matched_count, issues, last, pass_start>>

(***************************************************************************)
(* The files                                                               *)
(***************************************************************************)
MaxRows == 3        \* rows read in one run, over all files
MaxFileRows == 2    \* rows of one file

\* the columns of the files of a dataset: the mapped ones and some that
\* COLUMN_MAPS does not name
ExtraColumns(ds_name) ==
    CASE ds_name = "NHA" -> {"M1_emp"}
      [] ds_name = "PMJAY" -> {"M1_emp", "S1_upg"}
      [] ds_name = "PHC" -> {"Unnamed: 0"}
      [] OTHER -> {}

RawColumns(ds_name) == DOMAIN COLUMN_MAPS[ds_name] \cup ExtraColumns(ds_name)

\* the row of a file of ds_name whose cells, named by their unified column,
\* are those of cells where the file has the column, and missing elsewhere
Raw(ds_name, cells) ==
    [c \in RawColumns(ds_name) |->
        IF Renamed(ds_name, c) \in DOMAIN cells THEN cells[Renamed(ds_name, c)]
        ELSE NaNOf(Renamed(ds_name, c))]

\* the files of at most n rows taken from pool
FilesOf(ds_name, pool, n) ==
    {[rows |-> s, columns |-> RawColumns(ds_name)] :
        s \in UNION {[1..k -> pool] : k \in 0..n}}

Lat0 == 1700000     \* about 15.3 degrees north
Lon0 == 74

\* a facility in Goa
Facility == [facility_name |-> "City General Hospital", state |-> "GOA",
             district |-> "NORTH GOA", latitude |-> Lat0, longitude |-> Lon0]

With(cells, col, v) == Put(cells, col, v)

\* the source identifiers the files use
IdOf == [NHA |-> "F12", PHC |-> "F1", PMGSY |-> "", PMJAY |-> "", NIN |-> "",
         CDAC_BB |-> "", CHC |-> "12", CGHS |-> "G7", NHP |-> ""]

\* Files of the pipeline: one facility, reported by every dataset with
\* different descriptive cells, and a few other rows
PipelineCells(ds_name) ==
    LET f == With(With(Facility, "source_id", IdOf[ds_name]), "M1_emp", 0)
        other == With(With(f, "facility_name", "Pharmacy"), "latitude", Lat0 + 300)
    IN  CASE ds_name = "NHA" ->
               { f, With(f, "address", "NHA Road"), With(f, "address", " "),
                 With(f, "specialties", "ENT|Cardiology"),
                 With(With(f, "specialties", "ENT"), "M1_emp", 1),
                 With(f, "facility_type", "Hospital"), With(f, "latitude", NaNf), other,
                 With(f, "latitude", 45 * DegreeOfArc) }
          [] ds_name = "PHC" ->
               { f, With(f, "source_id", NaN), With(f, "latitude", NaNf),
                 With(With(f, "facility_name", "City General Hospitals"),
                      "latitude", Lat0 + 50) }
          [] ds_name = "PMGSY" ->
               { f, With(f, "address", "PMGSY Road"), With(f, "address", " ") }
          [] ds_name = "PMJAY" ->
               { f, With(f, "_specialties_emp", "ENT|Dental"), With(f, "M1_emp", 1) }
          [] ds_name = "NIN" ->
               { f, With(f, "facility_type", "Hospital"), With(f, "address", "NIN Road"),
                 With(f, "state", NaN) }
          [] ds_name = "CDAC_BB" -> { f, With(f, "longitude", NaNf) }
          [] ds_name = "CHC" -> { f, other }
          [] ds_name = "CGHS" ->
               { f, With(f, "specialties", "Dental||ENT"),
                 With(f, "specialties", "ENT|Cardiology") }
          [] ds_name = "NHP" ->
               { f, With(f, "latitude", Lat0 + 800), With(f, "num_beds", 250) }

PipelinePool(ds_name) == {Raw(ds_name, cells) : cells \in PipelineCells(ds_name)}

PipelineBaseFiles == FilesOf("NHA", PipelinePool("NHA"), MaxFileRows)

PipelineFiles == [ds_name \in ToSet(merge_order) |->
                     FilesOf(ds_name, PipelinePool(ds_name), MaxFileRows)]

\* Files for the resolution rules: facilities of Goa whose names, positions,
\* facility types and districts differ, seeded from NHA and reported by NIN,
\* PMGSY (files without a facility type) and NHP (the wide radius); the other
\* datasets have empty files
Named(name, lat, ftype) ==
    With(With(With(Facility, "facility_name", name), "latitude", lat), "facility_type", ftype)

ResolveCells(ds_name) ==
    CASE ds_name = "NHA" ->
           { Named("City General Hospital", Lat0, NaN),
             Named("City General Hospital", Lat0, "Hospital"),
             Named("City General Hospital", Lat0 + 200, NaN),
             Named("City Gen Hospital", Lat0, "Hospital"),
             Named("City Hospital", Lat0 + 200, "Hospital"),
             Named("City Hospital", Lat0, "Primary health centre"),
             Named("Citi Generl Hospitals", Lat0, "Hospital"),
             Named("Pharmacy", Lat0, NaN),
             Named("Nursing Home A", Lat0, NaN),
             Named("Nursing Home", Lat0, NaN),
             Named("Health and Wellness Centre", Lat0, NaN),
             With(Named("City General Hospital", Lat0, NaN), "district", "South Goa"),
             With(Named("City General Hospital", Lat0, NaN), "state", "KERALA"),
             Named("Pvt. Ltd.", Lat0, NaN) }
      [] ds_name = "NIN" ->
           { Named("City General Hospital", Lat0 + 100, "Hospital"),
             Named("City General Hospital", Lat0 + 100, NaN),
             Named("City General Hospital", Lat0 + 300, NaN),
             Named("City General Hospital", Lat0 + 700, NaN),
             Named("City General Hospital", NaNf, NaN),
             Named("City Genl. Hospital", NaNf, NaN),
             Named("City Gen Hospital", NaNf, NaN),
             With(Named("City General Hospital", NaNf, NaN), "district", "South Goa"),
             With(Named("City General Hospital", NaNf, NaN), "district", NaN),
             With(Named("City General Hospital", Lat0 + 100, NaN), "state", "KERALA"),
             With(Named("City General Hospital", Lat0 + 100, NaN), "longitude", Lon0 + 1),
             Named("City Hospital", Lat0 + 100, "Hospital"),
             Named("City Hospital", Lat0 + 100, NaN),
             Named("Pharmacy", Lat0 + 100, NaN),
             Named("Pharmacy", Lat0 + 300, NaN),
             Named("Pharmacy", NaNf, NaN),
             Named("Nursing Home", Lat0 + 100, NaN),
             Named("Nursing Home A", NaNf, NaN),
             Named("Health and Wellness Center", Lat0 + 100, NaN),
             Named("Pvt. Ltd.", Lat0 + 100, NaN),
             Named("Pvt. Ltd.", NaNf, NaN),
             With(Named("City General Hospital", Lat0 + 100, NaN), "state", NaN) }
      [] ds_name = "PMGSY" ->
           { Named("City Hospital", Lat0 + 200, NaN),
             Named("Pharmacy", Lat0 + 200, NaN) }
      [] ds_name = "NHP" ->
           { Named("City General Hospital", Lat0 + 800, NaN),
             Named("City General Hospital", Lat0 + 1200, NaN) }
      [] OTHER -> {}

\* the rows that also come two to a file
ResolvePairCells(ds_name) ==
    CASE ds_name = "NIN" ->
           { Named("City General Hospital", Lat0 + 100, "Hospital"),
             Named("City Hospital", Lat0 + 100, "Hospital"),
             Named("City General Hospital", NaNf, NaN),
             Named("Pharmacy", Lat0 + 100, NaN) }
      [] OTHER -> ResolveCells(ds_name)

ResolveFilesOf(ds_name) ==
    FilesOf(ds_name, {Raw(ds_name, cells) : cells \in ResolveCells(ds_name)}, 1)
    \cup FilesOf(ds_name, {Raw(ds_name, cells) : cells \in ResolvePairCells(ds_name)},
                 MaxFileRows)

ResolveBaseFiles == ResolveFilesOf("NHA")

ResolveFiles == [ds_name \in ToSet(merge_order) |-> ResolveFilesOf(ds_name)]

Next ==
    \/ load_base(PipelineBaseFiles)
    \/ load_fails
    \/ begin_merge(PipelineFiles, MaxRows)
    \/ process_row
    \/ finish_merge
    \/ post_process
    \/ validate
    \/ export

Spec == Init /\ [][Next]_vars

NextResolve ==
    \/ load_base(ResolveBaseFiles)
    \/ load_fails
    \/ begin_merge(ResolveFiles, MaxRows)
    \/ process_row
    \/ finish_merge
    \/ post_process
    \/ validate
    \/ export

SpecResolve == Init /\ [][NextResolve]_vars

\* Files of a run to its end: every dataset has an empty file and a file with
\* the one facility
MaxRunRows == 2

RunFilesOf(ds_name) ==
    FilesOf(ds_name, {Raw(ds_name, With(With(Facility, "source_id", IdOf[ds_name]),
                                        "M1_emp", 0))}, 1)

RunFiles == [ds_name \in ToSet(merge_order) |-> RunFilesOf(ds_name)]

NextRun ==
    \/ load_base(RunFilesOf("NHA"))
    \/ load_fails
    \/ begin_merge(RunFiles, MaxRunRows)
    \/ process_row
    \/ finish_merge
    \/ post_process
    \/ validate
    \/ export

\* Files of a run with more geo matches than the sample holds: one base
\* record, and a PHC file of SAMPLE_LIMIT rows with an abridged name followed
\* by a row with the name of the record
SampleBaseFile ==
    [rows |-> << Raw("NHA", Named("City General Hospital", Lat0, NaN)) >>,
     columns |-> RawColumns("NHA")]

SampleFile ==
    [rows |-> [k \in 1..(SAMPLE_LIMIT + 1) |->
                  Raw("PHC", Named(IF k <= SAMPLE_LIMIT THEN "City Gen Hospital"
                                   ELSE "City General Hospital", Lat0 + 100, NaN))],
     columns |-> RawColumns("PHC")]

SampleFiles ==
    [ds_name \in ToSet(merge_order) |->
        IF ds_name = "PHC" THEN {SampleFile} ELSE FilesOf(ds_name, {}, 0)]

NextSample ==
    \/ load_base({SampleBaseFile})
    \/ load_fails
    \/ begin_merge(SampleFiles, SAMPLE_LIMIT + 2)
    \/ process_row
    \/ finish_merge
    \/ post_process
    \/ validate
    \/ export

SpecSample == Init /\ [][NextSample]_vars

\* main() runs on: a call that can be made is made
SpecFair == Init /\ [][NextRun]_vars /\ WF_vars(NextRun)


(***************************************************************************)
(* Properties of the pipeline                                              *)
(***************************************************************************)
\* the source tags
SourceTags == {"NHA"} \cup ToSet(merge_order)

\* the pipe-separated components of a text cell
Components(v) == IF v = NaN THEN {} ELSE ToSet(Split(v, "|"))

\* a is the beginning of b
IsPrefix(a, b) == Len(a) <= Len(b) /\ SubSeq(b, 1, Len(a)) = a

\* the record at position i of rows is the record old, possibly enriched
SameRecord(old, new) ==
    /\ new["facility_name"] = old["facility_name"]
    /\ new["state"] = old["state"]
    /\ new["latitude"] = old["latitude"]
    /\ new["longitude"] = old["longitude"]
    /\ IsPrefix(old["source_datasets"], new["source_datasets"])

\* C1 (no loss): during and after every merge pass the master has at least as
\* many records as when the pass began, and every record the master had when
\* the pass began is still there, at its index label.
NoLoss ==
    /\ Len(master.rows) >= Len(pass_start)
    /\ \A i \in 1..Len(pass_start) : SameRecord(pass_start[i], master.rows[i])

\* a pass has ended in which one incoming record was merged and another appended
NoLossWitness ==
    /\ pc = "merge"
    /\ passes >= 1
    /\ stats[merge_order[passes]].matched = 1
    /\ stats[merge_order[passes]].new = 1
    /\ Len(master.rows) = Len(pass_start) + 1

\* C2 (provenance completeness): from load_base on, source_datasets of every
\* record of the master is present and non-empty, and names source tags only.
ProvenanceComplete ==
    pc # "load_base" =>
        \A i \in 1..Len(master.rows) :
            /\ master.rows[i]["source_datasets"] # NaN
            /\ master.rows[i]["source_datasets"] # ""
            /\ Components(master.rows[i]["source_datasets"]) # {}
            /\ Components(master.rows[i]["source_datasets"]) \subseteq SourceTags

\* post-processing has run on a master with a seeded record that was merged
\* into and an appended record
ProvenanceCompleteWitness ==
    /\ pc = "validate"
    /\ \E i, j \in 1..Len(master.rows) :
        /\ Cardinality(Components(master.rows[i]["source_datasets"])) >= 2
        /\ "NHA" \in Components(master.rows[i]["source_datasets"])
        /\ "NHA" \notin Components(master.rows[j]["source_datasets"])


(***************************************************************************)
(* Properties of match resolution.  They read the history variable last:   *)
(* the incoming row of the latest iteration, the master before it, the     *)
(* candidates handed to _find_best_match and the index label it returned.  *)
(***************************************************************************)
IncName == Get(last.row, "facility_name_clean")
BaseRow(i) == last.before.rows[i]
BaseName(i) == BaseRow(i)["facility_name_clean"]

\* fuzzy score, in thousandths of a point, and distance, in metres, between
\* the incoming row and the record with index label i
Score(i) == ScoreOf[IncName, BaseName(i)]
Dist(i) == haversine_km(last.row["latitude"], last.row["longitude"],
                        BaseRow(i)["latitude"], BaseRow(i)["longitude"])

Generic(i) == IncName \in GENERIC_NAMES \/ BaseName(i) \in GENERIC_NAMES

\* both have the same non-empty canonical facility type
SameType(i) ==
    /\ "facility_type" \in DOMAIN last.row
    /\ "facility_type" \in DOMAIN BaseRow(i)
    /\ last.row["facility_type"] \notin {"", NaN}
    /\ last.row["facility_type"] = BaseRow(i)["facility_type"]

\* the candidate passes the filters that precede the decision rule: its
\* cleaned name is not empty and the token overlap is at least 0.2
Prefiltered(i) ==
    /\ BaseName(i) # ""
    /\ 5 * OverlapOf[IncName, BaseName(i)][1] >= OverlapOf[IncName, BaseName(i)][2]

\* the decision rule, as the specification states it
Rule(i) ==
    IF Generic(i) THEN Dist(i) <= 100 /\ Score(i) >= 95000
    ELSE \/ Score(i) >= 85000
         \/ Score(i) >= 70000 /\ SameType(i)

Candidates == {last.cands[k] : k \in 1..Len(last.cands)}

\* the latest iteration left every record but the one with index label i as
\* it was
OnlyChanged(i) ==
    /\ Len(master.rows) = Len(last.before.rows)
    /\ \A j \in 1..Len(master.rows) :
           j # i => \A c \in DOMAIN BaseRow(j) : master.rows[j][c] = BaseRow(j)[c]

\* C3 (generic-name strictness): on the geo path, a returned candidate for
\* which the incoming or the candidate's cleaned name is generic lies at most
\* 100 m away and scores at least 95; a PHARMACY is never matched with a
\* PHARMACY 300 m away.
GenericNameStrictness ==
    last.kind = "geo" =>
        /\ (last.idx # 0 /\ Generic(last.idx)) =>
               Dist(last.idx) <= 100 /\ Score(last.idx) >= 95000
        /\ \A i \in Candidates :
               (IncName = "PHARMACY" /\ BaseName(i) = "PHARMACY" /\ Dist(i) = 300) =>
                   (last.idx # i /\ Score(i) = 100000)

\* a generic name was matched on the geo path
GenericNameStrictnessWitness ==
    /\ last.kind = "geo"
    /\ last.idx # 0
    /\ IncName \in GENERIC_NAMES
    /\ Dist(last.idx) = 100

\* C4 (clear match): an incoming row with coordinates and a non-generic name
\* whose only spatial candidate has a non-generic name, token overlap of at
\* least 0.2 and score of at least 85 is matched with that candidate; it is
\* merged, not appended, and the candidate's source_datasets then holds its
\* earlier tags and the incoming tag.
ClearMatch ==
    (/\ last.kind = "geo"
     /\ Len(last.cands) = 1
     /\ ~Generic(last.cands[1])
     /\ Prefiltered(last.cands[1])
     /\ Score(last.cands[1]) >= 85000) =>
        /\ last.idx = last.cands[1]
        /\ BaseRow(last.idx)["state"] = last.row["state"]
        /\ Dist(last.idx) <= (IF last.ds_name = "NHP" THEN 1000 ELSE 500)
        /\ pc = "rows" =>
             /\ OnlyChanged(last.idx)
             /\ \A k \in 1..Len(unmatched_indices) : unmatched_indices[k] # last.df_idx
             /\ Components(BaseRow(last.idx)["source_datasets"]) \cup {last.ds_name}
                    \subseteq Components(master.rows[last.idx]["source_datasets"])

\* a clear match with differing names has just been merged
ClearMatchWitness ==
    /\ pc = "rows"
    /\ last.kind = "geo"
    /\ Len(last.cands) = 1
    /\ ~Generic(last.cands[1])
    /\ Prefiltered(last.cands[1])
    /\ Score(last.cands[1]) >= 85000
    /\ Score(last.cands[1]) < 100000
    /\ last.idx = last.cands[1]

\* the candidate is a borderline one: it passed the filters, neither name is
\* generic and the score is at least 70 and below 85
Borderline(i) ==
    /\ Prefiltered(i)
    /\ ~Generic(i)
    /\ Score(i) >= 70000
    /\ Score(i) < 85000

\* C5 (type-gated borderline match): on the geo path a borderline candidate is
\* returned only if the incoming row and the candidate have the same non-empty
\* canonical facility type; if they have, the row is matched (with it or with
\* a candidate at least as good), and if the borderline candidate is the only
\* candidate, it is returned exactly when the types agree.
TypeGatedBorderline ==
    last.kind = "geo" =>
        \A i \in Candidates :
            Borderline(i) =>
                /\ last.idx = i => SameType(i)
                /\ SameType(i) => (last.idx # 0 /\ Score(last.idx) >= Score(i))
                /\ Len(last.cands) = 1 => (last.idx = i <=> SameType(i))

\* a borderline candidate with the same facility type was returned
TypeGatedBorderlineWitness ==
    /\ last.kind = "geo"
    /\ last.idx # 0
    /\ Borderline(last.idx)
    /\ SameType(last.idx)

\* the records the no-coordinate path compares the incoming row with: those of
\* its state, and of its district when it has one
SameArea(i) ==
    /\ BaseRow(i)["state"] = last.row["state"]
    /\ last.row["state"] # ""
    /\ Get(last.row, "district") # "" => BaseRow(i)["district"] = Get(last.row, "district")

Appended == \E k \in 1..Len(unmatched_indices) : unmatched_indices[k] = last.df_idx

\* C6 (no-geo fallback): for an incoming row without coordinates, the record
\* returned is of the same state (and district, when the row has one), scores
\* at least 90 and no record of that area scores more; the row is matched
\* whenever its name is non-empty and non-generic and a record of the area
\* scores at least 90; a matched row is merged and an unmatched one appended.
NoGeoFallback ==
    last.kind = "no_geo" =>
        /\ last.row["latitude"] = NaNf \/ last.row["longitude"] = NaNf
        /\ last.idx # 0 =>
               /\ IncName # "" /\ IncName \notin GENERIC_NAMES
               /\ SameArea(last.idx)
               /\ Score(last.idx) >= 90000
               /\ \A j \in 1..Len(last.before.rows) :
                      SameArea(j) => Score(j) <= Score(last.idx)
        /\ (/\ IncName # "" /\ IncName \notin GENERIC_NAMES
            /\ \E j \in 1..Len(last.before.rows) : SameArea(j) /\ Score(j) >= 90000)
               => last.idx # 0
        /\ pc = "rows" =>
               IF last.idx # 0
               THEN /\ ~Appended
                    /\ OnlyChanged(last.idx)
                    /\ last.ds_name \in Components(master.rows[last.idx]["source_datasets"])
               ELSE /\ Appended
                    /\ master = last.before

\* a row without coordinates was merged into a record whose name differs
NoGeoFallbackWitness ==
    /\ pc = "rows"
    /\ last.kind = "no_geo"
    /\ last.idx # 0
    /\ Score(last.idx) < 100000

\* the candidate satisfies the decision rule (after the filters before it)
Qualifies(i) == Prefiltered(i) /\ Rule(i)

\* C7 (ambiguous match resolution): on the geo path the record returned is a
\* candidate that satisfies the decision rule, no candidate satisfying it has
\* a higher score, and none with the same score is nearer; some candidate is
\* returned when one satisfies the rule; the iteration changes at most the
\* one record it returned.
AmbiguousMatchResolution ==
    last.kind = "geo" =>
        /\ last.idx # 0 =>
               /\ last.idx \in Candidates
               /\ Qualifies(last.idx)
               /\ \A i \in Candidates :
                      Qualifies(i) =>
                          \/ Score(i) < Score(last.idx)
                          \/ Score(i) = Score(last.idx) /\ Dist(i) >= Dist(last.idx)
        /\ (\E i \in Candidates : Qualifies(i)) => last.idx # 0
        /\ pc = "rows" =>
               IF last.idx # 0 THEN OnlyChanged(last.idx) ELSE master = last.before

\* two candidates with the same score qualified, at different distances
AmbiguousMatchResolutionWitness ==
    /\ pc = "rows"
    /\ last.kind = "geo"
    /\ last.idx # 0
    /\ \E i \in Candidates :
           /\ i # last.idx
           /\ Qualifies(i)
           /\ Score(i) = Score(last.idx)
           /\ Dist(i) > Dist(last.idx)


(***************************************************************************)
(* Properties of _merge_row                                                *)
(***************************************************************************)
\* the cell v of column col holds a value: it is neither null nor blank
Populated(col, v) == ~isna(col, v) /\ (col \notin NumericColumns => ~IsBlank(v))

\* the fill fields of old that hold a value have the same value in new
KeepsFilled(old, new) ==
    \A col \in ToSet(fill_cols) :
        (col \in DOMAIN old /\ Populated(col, old[col])) =>
            (col \in DOMAIN new /\ new[col] = old[col])

\* C8 (no-overwrite): a fill field of a record that holds a value keeps it
\* through every _merge_row into the record, whatever the incoming row
\* carries, and from the start of a pass through every later step.
NoOverwrite ==
    /\ (pc = "rows" /\ last.idx # 0) => KeepsFilled(BaseRow(last.idx), master.rows[last.idx])
    /\ \A i \in 1..Len(pass_start) : KeepsFilled(pass_start[i], master.rows[i])

\* a row with another address has been merged into a record that had one
NoOverwriteWitness ==
    /\ pc = "rows"
    /\ last.idx # 0
    /\ Populated("address", BaseRow(last.idx)["address"])
    /\ "address" \in DOMAIN last.row
    /\ Populated("address", last.row["address"])
    /\ last.row["address"] # BaseRow(last.idx)["address"]

\* the specialties of a record, as a set
Specialties(row) ==
    IF "specialties" \in DOMAIN row THEN Components(row["specialties"]) \ {""} ELSE {}

Capabilities == ToSet(SPECIALTY_EMP_COLS \o SPECIALTY_UPG_COLS)

\* the record new has the specialties of old and the capabilities that are 1
\* in old
Enriches(old, new) ==
    /\ Specialties(old) \subseteq Specialties(new)
    /\ \A c \in Capabilities :
           (c \in DOMAIN old /\ old[c] = 1) => (c \in DOMAIN new /\ new[c] = 1)

\* C9 (monotonic enrichment): every step of the pipeline keeps every record of
\* the master, with a specialties set that includes the one it had and with
\* every capability column that was 1 still 1.
MonotonicEnrichment ==
    [][\A i \in 1..Len(master.rows) :
           /\ i <= Len(master'.rows)
           /\ Enriches(master.rows[i], master'.rows[i])]_vars

\* a merge has added specialties to a record that had some and a capability,
\* from a row without that capability
MonotonicEnrichmentWitness ==
    /\ pc = "rows"
    /\ last.idx # 0
    /\ Specialties(BaseRow(last.idx)) # {}
    /\ Specialties(BaseRow(last.idx)) # Specialties(master.rows[last.idx])
    /\ BaseRow(last.idx)["M1_emp"] = 1
    /\ "M1_emp" \in DOMAIN last.row
    /\ last.row["M1_emp"] = 0

\* the components of a merged specialties value
Parts(v) == IF v = "" THEN << >> ELSE Split(v, "|")

\* C10 (idempotence of union fields): after a row with a specialties value was
\* merged into a record, the record's specialties are the union of the
\* components of both sides without the empty ones, in ascending order and
\* joined by "|"; merging the same row again leaves them as they are.
UnionIdempotent ==
    (/\ pc = "rows"
     /\ last.idx # 0
     /\ "specialties" \in DOMAIN last.row
     /\ last.row["specialties"] # NaN) =>
        LET merged == master.rows[last.idx]["specialties"]
            again == _merge_row(master, last.idx, last.row, last.ds_name)
        IN  /\ merged # NaN
            /\ ToSet(Parts(merged)) =
                   (Components(BaseRow(last.idx)["specialties"])
                    \cup Components(last.row["specialties"])) \ {""}
            /\ \A k \in 1..(Len(Parts(merged)) - 1) :
                   StrLess(Parts(merged)[k], Parts(merged)[k + 1])
            /\ merged = Join(Parts(merged), "|")
            /\ again.rows[last.idx]["specialties"] = merged

\* specialties with an empty component were merged into a record whose
\* specialties were not in ascending order
UnionIdempotentWitness ==
    /\ pc = "rows"
    /\ last.idx # 0
    /\ "specialties" \in DOMAIN last.row
    /\ last.row["specialties"] = "Dental||ENT"
    /\ BaseRow(last.idx)["specialties"] = "ENT|Cardiology"
    /\ master.rows[last.idx]["specialties"] = "Cardiology|Dental|ENT"


(***************************************************************************)
(* Properties of the run as a whole                                        *)
(***************************************************************************)
\* the datasets whose merge pass (for NHA: load) has completed
Completed == IF pc = "load_base" \/ (pc = "failed" /\ master = NoFrame) THEN {}
             ELSE {"NHA"} \cup {merge_order[k] : k \in 1..passes}

\* C11 (load failure is fatal): a run in which a load failed has stopped at
\* that dataset: no later dataset was merged, post_process, validate and
\* export did not run and nothing was written; in every run the datasets
\* dealt with are exactly those loaded and merged, none is skipped, and the
\* outputs are written only after all nine.
LoadFailureFatal ==
    /\ DOMAIN stats = Completed
    /\ pc \in {"post_process", "validate", "export", "done"} => passes = Len(merge_order)
    /\ outputs # {} => (pc = "done" /\ DOMAIN stats = SourceTags)
    /\ pc = "failed" =>
           /\ passes < Len(merge_order)
           /\ outputs = {}
           /\ issues = << >>
           /\ "master_id" \notin master.columns
           /\ ~ENABLED Next

\* the load of a secondary dataset failed after another had been merged
LoadFailureFatalWitness ==
    /\ pc = "failed"
    /\ passes >= 1
    /\ stats[merge_order[passes]].matched >= 1

\* the row has coordinates outside the national bounding box: latitude
\* outside [6, 38] degrees or longitude outside [68, 98] degrees
OutsideBox(row) ==
    /\ row["latitude"] # NaNf /\ row["longitude"] # NaNf
    /\ \/ row["latitude"] < 6 * DegreeOfArc \/ row["latitude"] > 38 * DegreeOfArc
       \/ row["longitude"] < 68 \/ row["longitude"] > 98

\* C12 (bounding-box warning, not failure): once validate has run on a master
\* with a row outside the bounding box, the list it returned holds a warning
\* about the coordinates, and the row is in the exported table.
BoundingBoxWarning ==
    (/\ pc \in {"export", "done"}
     /\ \E i \in 1..Len(master.rows) : OutsideBox(master.rows[i])) =>
        \E k \in 1..Len(issues) : issues[k] \notin {"row_count", "no_source"}

\* the dataset whose loaded frame is incoming
IncomingOf == IF pc = "rows" THEN merge_order[passes + 1] ELSE merge_order[passes]

\* the datasets whose rows, or some of them, were added to the master
Contributors ==
    IF master = NoFrame THEN {}
    ELSE {"NHA"} \cup {d \in DOMAIN stats : stats[d].new > 0}

\* post_process has removed the columns it removes
PostProcessed == pc \in {"validate", "export", "done"}

Internal(c) == StartsWith(c, "_") \/ StartsWith(c, "Unnamed")

\* the mapped raw columns of the loaded frame have their unified names
MappedRenamed ==
    incoming # NoFrame =>
        /\ \A c \in DOMAIN COLUMN_MAPS[IncomingOf] :
               /\ COLUMN_MAPS[IncomingOf][c] \in incoming.columns
               /\ COLUMN_MAPS[IncomingOf][c] # c => c \notin incoming.columns
        /\ \A i \in 1..Len(incoming.rows) : DOMAIN incoming.rows[i] = incoming.columns

\* C13 as stated (column-map contract): load renames every mapped raw column
\* and drops every raw column that its column map does not name, so that no
\* unmapped raw column of any source is a column of the master.
ColumnMapContract ==
    /\ MappedRenamed
    /\ incoming # NoFrame => ExtraColumns(IncomingOf) \cap incoming.columns = {}
    /\ master # NoFrame => \A d \in SourceTags : ExtraColumns(d) \cap master.columns = {}

\* C13 (column-map contract, amended): load renames every mapped raw column
\* to its unified name and keeps every raw column that its column map does not
\* name, under its raw name; such a column becomes a column of the master with
\* the rows of its dataset that are added, and the final master has it unless
\* its name begins with "_" or "Unnamed".
UnmappedColumnsKept ==
    /\ MappedRenamed
    /\ incoming # NoFrame => ExtraColumns(IncomingOf) \subseteq incoming.columns
    /\ \A d \in Contributors : \A c \in ExtraColumns(d) :
           c \in master.columns <=> ~(PostProcessed /\ Internal(c))

UnmappedColumnsKeptWitness ==
    /\ pc = "done"
    /\ {"PMJAY", "PHC"} \subseteq Contributors
    /\ {"M1_emp", "S1_upg"} \subseteq master.columns
    /\ "Unnamed: 0" \notin master.columns

\* every row of df has an identifier and no two rows have the same
Identified(df) ==
    /\ "master_id" \in df.columns
    /\ \A i \in 1..Len(df.rows) :
           /\ "master_id" \in DOMAIN df.rows[i]
           /\ df.rows[i]["master_id"] # NaN
    /\ \A i, j \in 1..Len(df.rows) :
           i # j => df.rows[i]["master_id"] # df.rows[j]["master_id"]

\* C14 (post-processing identity): post_process gives every MasterRecord one
\* identifier, different from that of every other MasterRecord, and the
\* MasterRecords after it are those before it, one for one and in their order;
\* the identifiers stay as they are until the end of the run.
PostProcessIdentity ==
    [][/\ pc = "post_process" =>
              /\ Identified(master')
              /\ Len(master'.rows) = Len(master.rows)
              /\ \A i \in 1..Len(master.rows) :
                     \A c \in (master'.columns \cap master.columns) \ ToSet(SOURCE_FLAGS) :
                         master'.rows[i][c] = master.rows[i][c]
       /\ PostProcessed => (master' = master /\ Identified(master))]_vars

PostProcessIdentityWitness ==
    /\ pc = "validate"
    /\ Len(master.rows) = MaxRows
    /\ Identified(master)
    /\ \E i, j \in 1..Len(master.rows) :
           i # j /\ master.rows[i]["facility_name"] = master.rows[j]["facility_name"]

\* C15 (generic names on the no-coordinate path): a row without coordinates
\* that is merged does not have a generic cleaned name, and the record it is
\* merged into does not have one either.
NoGeoNeverGeneric ==
    (last.kind = "no_geo" /\ last.idx # 0) =>
        /\ IncName \notin GENERIC_NAMES
        /\ BaseName(last.idx) \notin GENERIC_NAMES

\* the number of components of the text cell v that are id
Occurrences(v, id) ==
    IF v = NaN THEN 0
    ELSE Cardinality({k \in 1..Len(Split(v, "|")) : Split(v, "|")[k] = id})

\* C16 (source-id provenance on merge): after a row whose source identifier
\* is present and non-blank was merged into a record, the identifier is one of
\* the pipe-delimited entries of the record's source_ids: the entries are those
\* recorded before, followed by the identifier when it was not among them.
SourceIdRecorded ==
    (/\ pc = "rows"
     /\ last.idx # 0
     /\ Get(last.row, "source_id") # NaN
     /\ ~IsBlank(Get(last.row, "source_id"))) =>
        LET inc_id == last.row["source_id"]
            before == BaseRow(last.idx)["source_ids"]
            after == master.rows[last.idx]["source_ids"]
        IN  /\ inc_id \in Components(after)
            /\ Occurrences(after, inc_id) = IF inc_id \in Components(before)
                                           THEN Occurrences(before, inc_id) ELSE 1
            /\ Components(after) = Components(before) \cup {inc_id}


\* the cell of column c in a row of a frame that did not have the column
Added(c) == IF c \in ToSet(SOURCE_FLAGS) THEN False ELSE NaNOf(c)

\* C18 (merge frame): a call of _merge_row changes field values of the chosen
\* target only: every other MasterRecord has the field values it had, the
\* fields of a column the call added being missing (False for a flag), and
\* the number of MasterRecords is the same.
MergeFrame ==
    (pc = "rows" /\ last.idx # 0) =>
        /\ Len(master.rows) = Len(last.before.rows)
        /\ last.before.columns \subseteq master.columns
        /\ \A j \in 1..Len(master.rows) :
               j # last.idx =>
                   \A c \in master.columns :
                       master.rows[j][c] = IF c \in last.before.columns
                                           THEN BaseRow(j)[c] ELSE Added(c)

\* a call changed its target and added a column, in a master of several records
MergeFrameWitness ==
    /\ pc = "rows" /\ last.idx # 0
    /\ Len(master.rows) >= 2
    /\ master.columns # last.before.columns
    /\ \E c \in last.before.columns : master.rows[last.idx][c] # BaseRow(last.idx)[c]


\* C19 (cross-state confinement): an iteration for an incoming row of state S
\* has candidates of state S only, on the geo path, returns a record of state
\* S only, on either path, and leaves every MasterRecord of another state with
\* the field values it had.
CrossStateConfinement ==
    (pc = "rows" /\ last.kind \in {"geo", "no_geo", "no_candidates"}) =>
        /\ \A i \in Candidates : BaseRow(i)["state"] = last.row["state"]
        /\ last.idx # 0 => BaseRow(last.idx)["state"] = last.row["state"]
        /\ Len(master.rows) = Len(last.before.rows)
        /\ \A j \in 1..Len(master.rows) :
               BaseRow(j)["state"] # last.row["state"] =>
                   \A c \in last.before.columns : master.rows[j][c] = BaseRow(j)[c]

\* a row was merged into a record of its state while a record of the same
\* name and place, of another state, was in the master
CrossStateConfinementWitness ==
    /\ pc = "rows" /\ last.kind = "geo" /\ last.idx # 0
    /\ master.rows[last.idx] # BaseRow(last.idx)
    /\ \E j \in 1..Len(last.before.rows) :
           /\ BaseRow(j)["state"] # last.row["state"]
           /\ BaseName(j) = IncName
           /\ Dist(j) <= 100


\* the records that were in the master when the pass began, have coordinates
\* and the state of the incoming row, and lie within the radius of the pass
Queryable ==
    {i \in 1..Len(pass_start) :
        /\ pass_start[i]["latitude"] # NaNf /\ pass_start[i]["longitude"] # NaNf
        /\ pass_start[i]["state"] = last.row["state"]
        /\ haversine_km(last.row["latitude"], last.row["longitude"],
                        pass_start[i]["latitude"], pass_start[i]["longitude"])
               <= IF last.ds_name = "NHP" THEN WIDE_RADIUS_KM ELSE SEARCH_RADIUS_KM}

\* C20 (pass snapshot of candidates): during a pass the master has the records
\* it had when the pass began, and the candidates of an incoming row with
\* coordinates are exactly the records among them, appended in earlier passes
\* or seeded, that are within reach; the record returned on either path is one
\* of them, never a row of the pass itself, which is appended after the loop;
\* between passes the index covers every record with coordinates and state.
PassSnapshot ==
    /\ pc = "merge" => trees = build(master.rows)
    /\ pc = "rows" =>
           /\ Len(master.rows) = Len(pass_start)
           /\ trees = build(pass_start)
           /\ last.kind \in {"geo", "no_candidates"} => Candidates = Queryable
           /\ last.idx \in 0..Len(pass_start)

\* a row was matched with a record appended in an earlier pass while a row of
\* its own pass, of the same name and state and within the radius, waits to be
\* appended
PassSnapshotWitness ==
    /\ pc = "rows" /\ last.kind = "geo" /\ last.idx # 0
    /\ ~IsPrefix("NHA", BaseRow(last.idx)["source_datasets"])
    /\ \E k \in 1..Len(unmatched_indices) :
           LET waiting == incoming.rows[unmatched_indices[k]]
           IN  /\ waiting["facility_name_clean"] = IncName
               /\ waiting["state"] = last.row["state"]
               /\ waiting["latitude"] # NaNf
               /\ haversine_km(waiting["latitude"], waiting["longitude"],
                               last.row["latitude"], last.row["longitude"])
                      <= SEARCH_RADIUS_KM


(***************************************************************************)
(* _merge_row by itself: calls on a record with any tags recorded          *)
(***************************************************************************)
MaxTags == 2
MaxCalls == 2

\* the lists of at most n different source tags
TagLists(n) ==
    {s \in UNION {[1..k -> SourceTags] : k \in 1..n} :
        \A i, j \in 1..Len(s) : i # j => s[i] # s[j]}

\* a row as loaded from a file of ds_name
RowOf(ds_name) == LoadRow(ds_name, Raw(ds_name, With(Facility, "source_id", IdOf[ds_name])))

\* a master of one record that has the tags of some list recorded
InitMergeRow ==
    /\ pc = "merge_row"
    /\ \E tags \in TagLists(MaxTags) :
           master = [rows |-> << Put(Put(RowOf("NHA"), "source_ids", IdOf["NHA"]),
                                     "source_datasets", Join(tags, "|")) >>,
                     columns |-> DOMAIN RowOf("NHA") \cup {"source_ids"}]
    /\ trees = << >>
    /\ stats = << >>
    /\ sample_matches = << >>
    /\ passes = 0
    /\ incoming = NoFrame
    /\ queue = << >>
    /\ unmatched_indices = << >>
    /\ matched_count = 0
    /\ issues = << >>
    /\ outputs = {}
    /\ last = NoCall
    /\ pass_start = << >>

\* self._merge_row(match_idx, row, ds_name); matched_count += 1
merge_row_call ==
    /\ pc = "merge_row"
    /\ matched_count < MaxCalls
    /\ \E source_name \in SourceTags :
           /\ master' = _merge_row(master, 1, RowOf(source_name), source_name)
           /\ last' = [NoCall EXCEPT !.kind = "merge_row", !.ds_name = source_name,
                                     !.row = RowOf(source_name), !.before = master,
                                     !.idx = 1]
    /\ matched_count' = matched_count + 1
    /\ UNCHANGED <<pc, trees, stats, sample_matches, passes, incoming, queue,
                   unmatched_indices, issues, outputs, pass_start>>

NextMergeRow == merge_row_call

SpecMergeRow == InitMergeRow /\ [][NextMergeRow]_vars

\* s.lower()
RECURSIVE LowerFrom(_, _)
LowerFrom(s, i) ==
    IF i > Len(s) THEN "" ELSE LowerChar(Char(s, i)) \o LowerFrom(s, i + 1)

\* C17 (source-tag provenance on merge): after _merge_row(target, row, S) the
\* tags of the target's source_datasets are those recorded before, in their
\* order, followed by S when S was not among them, so that S occurs exactly
\* once; and the target's flag in_<s> is true.
SourceTagRecorded ==
    last.kind = "merge_row" =>
        LET S == last.ds_name
            before == Split(BaseRow(1)["source_datasets"], "|")
            after == Split(master.rows[1]["source_datasets"], "|")
            flag == "in_" \o LowerFrom(S, 1)
        IN  /\ after = IF S \in ToSet(before) THEN before ELSE Append(before, S)
            /\ Cardinality({k \in 1..Len(after) : after[k] = S}) = 1
            /\ flag \in master.columns
            /\ master.rows[1][flag] = True

\* some tag was merged a second time, after another tag
SourceTagRecordedWitness ==
    /\ last.kind = "merge_row"
    /\ Len(Split(BaseRow(1)["source_datasets"], "|")) = MaxTags + 1
    /\ master.rows[1]["source_datasets"] = BaseRow(1)["source_datasets"]
    /\ Split(BaseRow(1)["source_datasets"], "|")[1] = last.ds_name

(***************************************************************************)
(* Properties of validation, export and the statistics                     *)
(***************************************************************************)
\* C21 (row-count validation): the issues validate returned hold a row-count
\* issue exactly when the master has fewer records than load_base recorded
\* as loaded from the base dataset.
RowCountValidation ==
    pc \in {"export", "done"} =>
        ((\E k \in 1..Len(issues) : issues[k] = "row_count")
            <=> Len(master.rows) < stats["NHA"].loaded)

\* the step from stage a to stage b
Stage(a, b) == pc = a /\ pc' = b

\* C22 (stage ordering): the run loads the base, then makes one merge pass per
\* remaining source in merge order, then post-processes, validates and
\* exports, and it ends; a stage is left for the next one only, or by a load
\* that fails; export follows validate whatever issues it returned, with the
\* rows validate was given.
StageSteps ==
    /\ [][\/ pc' = pc
          \/ Stage("load_base", "merge") /\ passes' = 0
          \/ Stage("merge", "rows")
                 /\ passes' = passes /\ passes < Len(merge_order)
                 /\ \A i \in 1..Len(incoming'.rows) :
                        incoming'.rows[i]["source_datasets"] = merge_order[passes + 1]
          \/ Stage("rows", "merge")
                 /\ passes' = passes + 1 /\ passes' < Len(merge_order)
          \/ Stage("rows", "post_process")
                 /\ passes' = passes + 1 /\ passes' = Len(merge_order)
          \/ Stage("post_process", "validate") /\ passes' = Len(merge_order)
          \/ Stage("validate", "export")
                 /\ passes' = Len(merge_order)
                 /\ Len(master'.rows) = Len(master.rows)
          \/ Stage("export", "done")
                 /\ passes' = Len(merge_order)
                 /\ outputs' # {}
                 /\ Len(master'.rows) = Len(master.rows)
          \/ pc \in {"load_base", "merge"} /\ pc' = "failed"]_vars

Ends == <>(pc \in {"done", "failed"})

StageOrdering == StageSteps /\ Ends

\* the run has exported although validate returned an issue
StageOrderingWitness ==
    /\ pc = "done"
    /\ issues # << >>
    /\ outputs # {}
    /\ DOMAIN stats = SourceTags

\* C23 (operative radius): a row merged on the geo path is merged into a
\* record of its own state that is at most 1 km away when the source is NHP
\* and at most 500 m away otherwise, and at most 100 m away when the name of
\* the row or of the record is generic.
OperativeRadius ==
    (pc = "rows" /\ last.kind = "geo" /\ last.idx # 0) =>
        /\ BaseRow(last.idx)["state"] = last.row["state"]
        /\ Dist(last.idx) <= IF last.ds_name = "NHP" THEN 1000 ELSE 500
        /\ Generic(last.idx) => Dist(last.idx) <= 100
        /\ master.rows[last.idx] = _merge_row(last.before, last.idx, last.row,
                                              last.ds_name).rows[last.idx]

\* an NHP row was merged into a record more than 500 m away
OperativeRadiusWitness ==
    /\ pc = "rows" /\ last.kind = "geo" /\ last.idx # 0
    /\ last.ds_name = "NHP"
    /\ Dist(last.idx) > 500

\* the incoming row has both coordinates
HasGeo == last.row["latitude"] # NaNf /\ last.row["longitude"] # NaNf

\* C24 (always-new edge cases): a row whose cleaned name is empty is merged on
\* neither path and is appended; the record a row is merged into has a
\* non-empty cleaned name; a row without state, and a row with coordinates
\* whose state has no record in the index, is unmatched and appended.
AlwaysNew ==
    (pc = "rows" /\ last.kind # "none") =>
        /\ IncName = "" => last.idx = 0
        /\ last.idx # 0 => BaseName(last.idx) # ""
        /\ last.row["state"] = "" => (last.kind = "no_state" /\ last.idx = 0)
        /\ (HasGeo /\ last.row["state"] \notin DOMAIN trees) => last.idx = 0
        /\ last.idx = 0 => (Appended /\ master = last.before)

\* a row with an empty cleaned name and no coordinates was left unmatched
\* although a record of its district has an empty cleaned name too
AlwaysNewWitness ==
    /\ pc = "rows" /\ last.kind = "no_geo"
    /\ IncName = ""
    /\ \E j \in 1..Len(last.before.rows) : SameArea(j) /\ BaseName(j) = ""
    /\ Appended

\* the step is an iteration of the loop of merge_dataset that accepted a match
\* on the geo path
GeoMatchStep ==
    /\ pc = "rows" /\ queue # << >> /\ queue' = Tail(queue)
    /\ last'.kind = "geo" /\ last'.idx # 0

\* the entry of the sample for the match of the step
SampleEntry ==
    [score |-> last'.score, distance_km |-> last'.dist, state |-> last'.row["state"],
     source |-> last'.ds_name, base_idx |-> last'.idx]

\* C25 as stated (audit sample): the sample holds at most 200 entries, each
\* an accepted geo match, and a geo match is left out of it only if its score
\* is not higher than that of any entry.
AuditSampleBest ==
    [][/\ Len(sample_matches') <= 200
       /\ GeoMatchStep =>
              \/ sample_matches' = Append(sample_matches, SampleEntry)
              \/ /\ sample_matches' = sample_matches
                 /\ \A k \in 1..Len(sample_matches) :
                        last'.score <= sample_matches[k].score
       /\ ~GeoMatchStep => sample_matches' = sample_matches]_vars

\* C25 (audit sample, amended): the sample holds at most 200 entries, each an
\* accepted geo match, and they are the first accepted geo matches of the run:
\* a geo match is left out of it only when it holds 200 entries already, and
\* an entry is never removed.
AuditSampleFirst ==
    [][/\ Len(sample_matches') <= 200
       /\ GeoMatchStep =>
              sample_matches' = IF Len(sample_matches) < 200
                                THEN Append(sample_matches, SampleEntry)
                                ELSE sample_matches
       /\ ~GeoMatchStep => sample_matches' = sample_matches]_vars

\* a geo match was left out of the full sample
AuditSampleFirstWitness ==
    /\ pc = "rows" /\ last.kind = "geo" /\ last.idx # 0
    /\ Len(sample_matches) = 200
    /\ matched_count = 201

\* the sum of the counts "new" of the datasets D in the statistics st
RECURSIVE NewIn(_, _)
NewIn(st, D) == IF D = {} THEN 0
                ELSE LET d == CHOOSE e \in D : TRUE
                     IN  st[d].new + NewIn(st, D \ {d})

\* the index labels of a sequence, which has none twice
Labels(q) == {q[k] : k \in 1..Len(q)}
Distinct(q) == Cardinality(Labels(q)) = Len(q)

\* C26 (merge accounting): in a pass every incoming row is waiting, merged or
\* kept for appending, and only one of these; the statistics of every dataset
\* satisfy loaded = matched + new; the master has as many records as the sum
\* of new over the datasets done, and a pass adds exactly its new rows; at the
\* end of the run the statistics cover the nine sources.
MergeAccounting ==
    /\ pc = "rows" =>
           /\ Distinct(queue) /\ Distinct(unmatched_indices)
           /\ Labels(queue) \cap Labels(unmatched_indices) = {}
           /\ Labels(queue) \cup Labels(unmatched_indices) \subseteq 1..Len(incoming.rows)
           /\ Len(queue) + Len(unmatched_indices) + matched_count = Len(incoming.rows)
           /\ last.kind # "none" => (last.idx # 0 <=> ~Appended)
           /\ Len(master.rows) = Len(pass_start)
    /\ \A d \in DOMAIN stats :
           stats[d].loaded = stats[d].matched + stats[d].new
    /\ master # NoFrame => Len(master.rows) = NewIn(stats, DOMAIN stats)
    /\ (pc \in {"merge", "post_process"} /\ passes >= 1) =>
           /\ Len(master.rows) = Len(pass_start) + stats[merge_order[passes]].new
           /\ stats[merge_order[passes]].loaded = Len(incoming.rows)
    /\ pc \in {"export", "done"} => DOMAIN stats = SourceTags

\* the run is over; a dataset had a row merged and a row appended, another a
\* row without state
MergeAccountingWitness ==
    /\ pc = "done"
    /\ \E d \in DOMAIN stats : stats[d].matched >= 1 /\ stats[d].new >= 1
    /\ \E i \in 1..Len(master.rows) : master.rows[i]["state"] = ""

\* the flag column of source X
FlagNames == [X \in SourceTags |-> "in_" \o LowerFrom(X, 1)]
FlagName(X) == FlagNames[X]

\* C27 (flag/tag consistency): after post_process the master has the flag
\* column of each of the nine sources, SOURCE_FLAGS being their names, and in
\* every record the flag of X is true if X is one of the entries of
\* source_datasets and false if not.
FlagTagConsistency ==
    PostProcessed =>
        /\ ToSet(SOURCE_FLAGS) = {FlagName(X) : X \in SourceTags}
        /\ \A X \in SourceTags :
               /\ FlagName(X) \in master.columns
               /\ \A i \in 1..Len(master.rows) :
                      master.rows[i][FlagName(X)] =
                          IF X \in Components(master.rows[i]["source_datasets"])
                          THEN True ELSE False

\* the final master has a seeded record and an appended record with a merged
\* row
FlagTagConsistencyWitness ==
    /\ pc = "validate"
    /\ \E j, k \in 1..Len(master.rows) :
           /\ IsPrefix("NHA", master.rows[j]["source_datasets"])
           /\ ~IsPrefix("NHA", master.rows[k]["source_datasets"])
           /\ Cardinality(Components(master.rows[k]["source_datasets"])) = 2

\* the fields that matching reads
KeyFields == {"facility_name_clean", "latitude", "longitude", "state", "district"}

\* C28 (spatial-index validity): every entry of the index under state S has
\* the index label of a record of the master whose state is S and whose
\* coordinates are the indexed ones; a record that was in the master when the
\* pass began is at its index label with its cleaned name, coordinates, state
\* and district unchanged, during the pass and after its rows were appended.
SpatialIndexValid ==
    /\ \A S \in DOMAIN trees : \A e \in trees[S] :
           /\ S # ""
           /\ e.idx \in 1..Len(master.rows)
           /\ master.rows[e.idx]["state"] = S
           /\ master.rows[e.idx]["latitude"] = e.latitude
           /\ master.rows[e.idx]["longitude"] = e.longitude
           /\ e.latitude # NaNf /\ e.longitude # NaNf
    /\ pc \in {"merge", "rows", "post_process"} =>
           /\ Len(pass_start) <= Len(master.rows)
           /\ \A i \in 1..Len(pass_start) : \A c \in KeyFields :
                  master.rows[i][c] = pass_start[i][c]

\* a pass has appended a record to a master whose indexed record had a row
\* merged into it
SpatialIndexValidWitness ==
    /\ pc = "merge"
    /\ Len(master.rows) > Len(pass_start)
    /\ \E S \in DOMAIN trees : \E e \in trees[S] :
           /\ e.idx <= Len(pass_start)
           /\ master.rows[e.idx] # Reindex(pass_start[e.idx], master.columns)

\* the columns of the master when the pass began
PassStartColumns == IF pass_start = << >> THEN {} ELSE DOMAIN pass_start[1]

\* C29 (within-pass order independence): the record an iteration returns for
\* an incoming row, or none, is the one the matching functions return for the
\* row on the master as it stood when the pass began, whatever rows of the
\* pass were merged before it.
OrderIndependent ==
    pc = "rows" =>
        /\ last.kind = "geo" =>
               last.idx = _find_best_match(pass_start, PassStartColumns, last.row,
                                           last.cands).idx
        /\ last.kind = "no_geo" =>
               last.idx = _name_only_match(pass_start, last.row, last.row["state"])

\* C30 (source-id provenance on append): every record of the master that has
\* a non-blank source identifier of its own, seeded from the base or appended
\* from a later source, has that identifier among the entries of its
\* source_ids, also after rows of later sources were merged into it.
SourceIdKept ==
    master # NoFrame =>
        \A i \in 1..Len(master.rows) :
            LET id == Get(master.rows[i], "source_id")
            IN  (id # NaN /\ ~IsBlank(id)) =>
                    id \in Components(master.rows[i]["source_ids"])

====
